---- MODULE Spec2Model ----
(***************************************************************************)
(* A model of the Pixel-Art-Editor engine: Pixel (src/src/pixel.py),       *)
(* Layer (src/src/layer.py) and Canvas (src/src/canvas.py).                *)
(*                                                                         *)
(* Conventions.  Python indices are kept 0-based: the k'th layer of the    *)
(* Python list _layers is layers[k + 1] of the TLA+ sequence, and a pixel  *)
(* grid is a function pixels[col][row] over 0..w-1 and 0..h-1, like the    *)
(* list of columns Layer._pixels.  Python's None is the empty tuple.  A    *)
(* Layer object is a record whose field id is the object's identity.  A    *)
(* Python str is a sequence of one-character strings.  Where the identity  *)
(* of Pixel objects matters, heap keeps the objects by reference: heap.rgb *)
(* is the rgb attribute of each Pixel object and heap.layers the Layer     *)
(* objects, whose grids then hold references to Pixel objects.             *)
(***************************************************************************)
EXTENDS Integers, Sequences, FiniteSets, TLC

VARIABLES canvas, last, file, heap, gui

vars == <<canvas, last, file, heap, gui>>

----------------------------------------------------------------------------
(* Bounds of the model *)

\* largest number of layers a canvas is grown to
MaxLayers == 3

\* upscale is not called when a dimension would exceed this
MaxDim == 4

\* largest |i| passed to move_layer
MaxShift == 2

None == <<>>

\* the sizes canvases are constructed with
Sizes == {<<1, 2>>}

\* references available for Layer objects
LayerIds == 1 .. (2 * MaxLayers)

----------------------------------------------------------------------------
(* Small helpers on Python lists *)

Max(a, b) == IF a >= b THEN a ELSE b

Min(a, b) == IF a <= b THEN a ELSE b

\* list.index(x) by object identity; 0-based
IndexOf(ls, ident) == (CHOOSE k \in 1 .. Len(ls) : ls[k].id = ident /\ \A j \in 1 .. (k - 1) : ls[j].id # ident) - 1

\* list.pop(k) / list.remove(x): the list without its (0-based) k'th element
ListPop(ls, k) == [j \in 1 .. (Len(ls) - 1) |-> IF j <= k THEN ls[j] ELSE ls[j + 1]]

\* list.insert(k, x) for 0 <= k
ListInsert(ls, k, x) == LET kk == Min(k, Len(ls)) IN [j \in 1 .. (Len(ls) + 1) |-> IF j <= kk THEN ls[j] ELSE IF j = kk + 1 THEN x ELSE ls[j - 1]]

Ids(ls) == {ls[k].id : k \in 1 .. Len(ls)}

IdSeq(ls) == [k \in 1 .. Len(ls) |-> ls[k].id]

\* Layer references come in two arenas of MaxLayers references each; a canvas holds
\* references of one arena at a time
Arena(ls) == IF \E k \in 1 .. Len(ls) : ls[k].id > MaxLayers THEN 1 ELSE 0

\* the reference of a newly constructed Layer object: one the canvas does not hold
FreshId(ls) == LET free == {x \in LayerIds : x \notin Ids(ls) /\ (x > MaxLayers) = (Arena(ls) = 1)} IN CHOOSE x \in free : \A y \in free : x <= y

\* the reference of the Layer object that upscale or downscale builds from the object ident:
\* a new object, so a reference that no layer of the canvas holds
RebuiltId(ident) == IF ident > MaxLayers THEN ident - MaxLayers ELSE ident + MaxLayers

----------------------------------------------------------------------------
(* Python's str: the built-ins the program calls *)

DecDigits == <<"0", "1", "2", "3", "4", "5", "6", "7", "8", "9">>

HexDigits == <<"0", "1", "2", "3", "4", "5", "6", "7", "8", "9", "a", "b", "c", "d", "e", "f">>

UpperHexDigits == <<"0", "1", "2", "3", "4", "5", "6", "7", "8", "9", "A", "B", "C", "D", "E", "F">>

Whitespace == {" ", "\n", "\t", "\r"}

RECURSIVE IntToStr(_)
\* f'{n}' for an int n >= 0
IntToStr(n) == IF n < 10 THEN <<DecDigits[n + 1]>> ELSE IntToStr(n \div 10) \o <<DecDigits[(n % 10) + 1]>>

RECURSIVE HexStr(_)
\* hex(n)[2:] for an int n >= 0
HexStr(n) == IF n < 16 THEN <<HexDigits[n + 1]>> ELSE HexStr(n \div 16) \o <<HexDigits[(n % 16) + 1]>>

RECURSIVE PadLeft(_, _, _)
\* the format specification :0>2 and its like: right-aligned, filled to the width
PadLeft(str, fill, width) == IF Len(str) >= width THEN str ELSE PadLeft(<<fill>> \o str, fill, width)

RECURSIVE LStrip(_, _)
\* str.lstrip(chars)
LStrip(str, chars) == IF str # <<>> /\ Head(str) \in chars THEN LStrip(Tail(str), chars) ELSE str

RECURSIVE RStrip(_, _)
\* str.rstrip(chars)
RStrip(str, chars) == IF str # <<>> /\ str[Len(str)] \in chars THEN RStrip(SubSeq(str, 1, Len(str) - 1), chars) ELSE str

\* str.strip()
Strip(str) == RStrip(LStrip(str, Whitespace), Whitespace)

RECURSIVE Split(_, _)
\* str.split(sep) for a separator of one character
Split(str, sep) == IF \E k \in 1 .. Len(str) : str[k] = sep
                   THEN LET k == CHOOSE j \in 1 .. Len(str) : str[j] = sep /\ \A m \in 1 .. (j - 1) : str[m] # sep
                        IN  <<SubSeq(str, 1, k - 1)>> \o Split(SubSeq(str, k + 1, Len(str)), sep)
                   ELSE <<str>>

RECURSIVE Join(_, _)
\* sep.join(strs)
Join(strs, sep) == IF strs = <<>> THEN <<>> ELSE IF Len(strs) = 1 THEN strs[1] ELSE strs[1] \o sep \o Join(Tail(strs), sep)

\* the value of a digit in a base, -1 when the character is no digit of it
DigitValue(ch, base) == IF \E d \in 1 .. base : HexDigits[d] = ch \/ UpperHexDigits[d] = ch
                        THEN (CHOOSE d \in 1 .. base : HexDigits[d] = ch \/ UpperHexDigits[d] = ch) - 1
                        ELSE -1

RECURSIVE DigitsValue(_, _, _)
\* the number a string of digits denotes, digit by digit from the accumulator acc
DigitsValue(str, base, acc) == IF str = <<>> THEN acc ELSE DigitsValue(Tail(str), base, acc * base + DigitValue(Head(str), base))

\* the element of a set of one element; {e(x) : x \in {v}} computes v once
The(S) == CHOOSE x \in S : TRUE

\* what a call that may raise returns: ok, or the exception
Ok(v) == [ok |-> TRUE, val |-> v]

Raise(e) == [ok |-> FALSE, val |-> e]

\* int(str, base): surrounding whitespace and a sign are accepted; ValueError otherwise
ParseInt(str, base) == LET t == Strip(str)
                           neg == t # <<>> /\ Head(t) = "-"
                           digits == IF t # <<>> /\ Head(t) \in {"-", "+"} THEN Tail(t) ELSE t
                       IN  IF digits = <<>> \/ \E k \in 1 .. Len(digits) : DigitValue(digits[k], base) = -1
                           THEN Raise("ValueError")
                           ELSE Ok(IF neg THEN 0 - DigitsValue(digits, base, 0) ELSE DigitsValue(digits, base, 0))

----------------------------------------------------------------------------
(* pixel.py and layer.py *)

\* round that takes an exact half up
PyRound_HalfUp(a, b) == (2 * a + b) \div (2 * b)

\* round(a / b) for integers a >= 0, b > 0: Python rounds an exact half to even
PyRound(a, b) == LET q == a \div b
                     r == a % b
                 IN  IF 2 * r < b THEN q
                     ELSE IF 2 * r > b THEN q + 1
                     ELSE IF q % 2 = 0 THEN q ELSE q + 1

\* convert_to_hex_rgb(rgb)
convert_to_hex_rgb(rgb) == <<"#">> \o PadLeft(HexStr(rgb[1]), "0", 2) \o PadLeft(HexStr(rgb[2]), "0", 2) \o PadLeft(HexStr(rgb[3]), "0", 2)

\* Pixel.set that reads the blue channel from the green digits
Pixel_set_GreenTwice(colour_hex_str) == IF colour_hex_str = None THEN None
                                        ELSE <<ParseInt(SubSeq(colour_hex_str, 2, 3), 16).val, ParseInt(SubSeq(colour_hex_str, 4, 5), 16).val, ParseInt(SubSeq(colour_hex_str, 4, 5), 16).val>>

\* the rgb that Pixel.set(colour_hex_str) stores
Pixel_set(colour_hex_str) == IF colour_hex_str = None THEN None
                             ELSE <<ParseInt(SubSeq(colour_hex_str, 2, 3), 16).val, ParseInt(SubSeq(colour_hex_str, 4, 5), 16).val, ParseInt(SubSeq(colour_hex_str, 6, 7), 16).val>>

RECURSIVE SumChannel(_, _)
SumChannel(ps, ch) == IF ps = <<>> THEN 0 ELSE (IF Head(ps) # None THEN Head(ps)[ch] ELSE 0) + SumChannel(Tail(ps), ch)

\* a count that stops after the first pixel
CountOpaque_First(ps) == IF ps # <<>> /\ Head(ps) # None THEN 1 ELSE 0

RECURSIVE CountOpaque(_)
CountOpaque(ps) == IF ps = <<>> THEN 0 ELSE (IF Head(ps) # None THEN 1 ELSE 0) + CountOpaque(Tail(ps))

\* average_pixels that returns a black pixel when every pixel is transparent
average_pixels_Black(ps) == IF CountOpaque(ps) = 0 THEN <<0, 0, 0>>
                            ELSE <<PyRound(SumChannel(ps, 1), CountOpaque(ps)), PyRound(SumChannel(ps, 2), CountOpaque(ps)), PyRound(SumChannel(ps, 3), CountOpaque(ps))>>

\* average_pixels(pixels).rgb, pixels given by their rgb values
average_pixels(ps) == LET count == CountOpaque(ps)
                      IN  IF count = 0 THEN None
                          ELSE <<PyRound(SumChannel(ps, 1), count), PyRound(SumChannel(ps, 2), count), PyRound(SumChannel(ps, 3), count)>>

\* Layer(size, bg, name), the new object having reference ident
Layer_init(ident, sz, bg, name) == [id |-> ident, name |-> name, visible |-> TRUE, size |-> sz, pixels |-> [col \in 0 .. (sz[1] - 1) |-> [row \in 0 .. (sz[2] - 1) |-> bg]]]

\* Layer.get_pixel(loc).rgb
get_pixel(layer, loc) == layer.pixels[loc[1]][loc[2]]

\* pixel.rgb = rgb for the Pixel object at loc of a grid
SetRgb(pixels, loc, rgb) == [pixels EXCEPT ![loc[1]][loc[2]] = rgb]

\* the body of the loops of Layer.upscale for the source pixel (x, y): four assignments
UpscaleStep(pixels, layer, x, y) == LET rgb_value == get_pixel(layer, <<x, y>>)
                                    IN  SetRgb(SetRgb(SetRgb(SetRgb(pixels, <<x * 2, y * 2>>, rgb_value), <<x * 2 + 1, y * 2>>, rgb_value), <<x * 2, y * 2 + 1>>, rgb_value), <<x * 2 + 1, y * 2 + 1>>, rgb_value)

RECURSIVE UpscaleLoop(_, _, _)
\* the loops of Layer.upscale from the k'th source pixel on, x outermost
UpscaleLoop(pixels, layer, k) == IF k >= layer.size[1] * layer.size[2] THEN pixels
                                 ELSE UpscaleLoop(UpscaleStep(pixels, layer, k \div layer.size[2], k % layer.size[2]), layer, k + 1)

\* Layer.upscale(), the new object having reference ident
Layer_upscale(layer, ident) == LET new_size == <<layer.size[1] * 2, layer.size[2] * 2>>
                                   new_layer == Layer_init(ident, new_size, None, layer.name)
                               IN  [new_layer EXCEPT !.visible = layer.visible, !.pixels = UpscaleLoop(new_layer.pixels, layer, 0)]

\* Layer.downscale that leaves the new layer visible
Layer_downscale_Visible(layer, ident) == [Layer_init(ident, <<layer.size[1] \div 2, layer.size[2] \div 2>>, None, layer.name) EXCEPT !.pixels = [x \in 0 .. ((layer.size[1] \div 2) - 1) |-> [y \in 0 .. ((layer.size[2] \div 2) - 1) |-> average_pixels(<<get_pixel(layer, <<2 * x, 2 * y>>), get_pixel(layer, <<2 * x + 1, 2 * y>>), get_pixel(layer, <<2 * x, 2 * y + 1>>), get_pixel(layer, <<2 * x + 1, 2 * y + 1>>)>>)]]]

\* Layer.downscale(), the new object having reference ident
Layer_downscale(layer, ident) == LET new_size == <<layer.size[1] \div 2, layer.size[2] \div 2>>
                                     new_layer == Layer_init(ident, new_size, None, layer.name)
                                 IN  [new_layer EXCEPT !.visible = layer.visible, !.pixels = [x \in 0 .. (new_size[1] - 1) |-> [y \in 0 .. (new_size[2] - 1) |-> average_pixels(<<get_pixel(layer, <<2 * x, 2 * y>>), get_pixel(layer, <<2 * x + 1, 2 * y>>), get_pixel(layer, <<2 * x, 2 * y + 1>>), get_pixel(layer, <<2 * x + 1, 2 * y + 1>>)>>)]]]

----------------------------------------------------------------------------
(* canvas.py: class Canvas.  A canvas is the record of its attributes      *)
(* size, active_layer_index and layers (_layers).                          *)

\* Canvas(size)
Canvas_init(sz) == [size |-> sz, active_layer_index |-> -1, layers |-> <<>>]

\* add_layer that never makes the first layer active
AddActive_Keep(active) == active

\* the active index after add_layer
AddActive(active) == IF active = -1 THEN 0 ELSE active

\* add_layer that puts the layer on top
Canvas_add_layer_Top(c, layer) == [c EXCEPT !.layers = <<layer>> \o c.layers, !.active_layer_index = AddActive(c.active_layer_index)]

Canvas_add_layer(c, layer) == [c EXCEPT !.layers = Append(c.layers, layer), !.active_layer_index = AddActive(c.active_layer_index)]

\* remove_layer that forgets to follow the active layer when a layer above it goes
RemoveActive_NoDecrement(active, index, n) == IF active = index THEN (IF active >= n THEN n - 1 ELSE active) ELSE active

\* remove_layer that forgets to re-clamp the active index
RemoveActive_NoClamp(active, index, n) == IF active > index THEN active - 1 ELSE active

\* remove_layer that re-clamps the active index to no less than 0
RemoveActive_ClampZero(active, index, n) == IF active = index THEN (IF active >= n THEN Max(n - 1, 0) ELSE active)
                                            ELSE IF active > index THEN active - 1
                                            ELSE active

\* the active index after remove_layer took the layer at index out of a list that now has n layers
RemoveActive(active, index, n) == IF active = index THEN (IF active >= n THEN n - 1 ELSE active)
                                  ELSE IF active > index THEN active - 1
                                  ELSE active

Canvas_remove_layer(c, ident) == LET index == IndexOf(c.layers, ident)
                                     ls == ListPop(c.layers, index)
                                 IN  [c EXCEPT !.layers = ls, !.active_layer_index = RemoveActive(c.active_layer_index, index, Len(ls))]

\* move_layer that takes positive i as towards the bottom
MoveDest_Down(org_index, i, n) == IF org_index + i < 0 THEN 0 ELSE IF org_index + i > n - 1 THEN n - 1 ELSE org_index + i

\* move_layer that clamps new_index to the list that pop has shortened
MoveDest_AfterPop(org_index, i, n) == Max(0, Min(org_index - i, n - 2))

\* new_index of move_layer
MoveDest(org_index, i, n) == Max(0, Min(org_index - i, n - 1))

\* move_layer that only follows the active layer when it is the moved one
MoveActive_NoShift(active, org_index, new_index) == IF active = org_index THEN new_index ELSE active

\* the active index after move_layer
MoveActive(active, org_index, new_index) == IF active = org_index THEN new_index
                                            ELSE IF org_index < active /\ active <= new_index THEN active - 1
                                            ELSE IF new_index <= active /\ active < org_index THEN active + 1
                                            ELSE active

Canvas_move_layer(c, ident, i) == LET org_index == IndexOf(c.layers, ident)
                                      new_index == MoveDest(org_index, i, Len(c.layers))
                                      layer == c.layers[org_index + 1]
                                  IN  [c EXCEPT !.layers = ListInsert(ListPop(c.layers, org_index), new_index, layer), !.active_layer_index = MoveActive(c.active_layer_index, org_index, new_index)]

\* the list upscale_l built by Canvas.upscale
UpscaleList(ls) == [k \in 1 .. Len(ls) |-> Layer_upscale(ls[k], RebuiltId(ls[k].id))]

\* upscale that forgets to double the canvas size
Canvas_upscale_KeepSize(c) == [c EXCEPT !.layers = [k \in 1 .. Len(c.layers) |-> Layer_upscale(c.layers[k], RebuiltId(c.layers[k].id))]]

Canvas_upscale(c) == [c EXCEPT !.size = <<c.size[1] * 2, c.size[2] * 2>>, !.layers = UpscaleList(c.layers)]

\* downscale that builds downscale_l with insert(0, ...), the last layer first
DownscaleList_Reversed(ls) == [k \in 1 .. Len(ls) |-> Layer_downscale(ls[Len(ls) + 1 - k], RebuiltId(ls[Len(ls) + 1 - k].id))]

\* the list downscale_l built by Canvas.downscale
DownscaleList(ls) == [k \in 1 .. Len(ls) |-> Layer_downscale(ls[k], RebuiltId(ls[k].id))]

Canvas_downscale(c) == [c EXCEPT !.size = <<c.size[1] \div 2, c.size[2] \div 2>>, !.layers = DownscaleList(c.layers)]

RECURSIVE Canvas_get_hex_rgb_IgnoreHidden(_, _)
\* get_hex_rgb that looks at hidden layers too
Canvas_get_hex_rgb_IgnoreHidden(c, loc) == IF c.layers = <<>> THEN None
                                           ELSE IF get_pixel(Head(c.layers), loc) # None THEN convert_to_hex_rgb(get_pixel(Head(c.layers), loc))
                                           ELSE Canvas_get_hex_rgb_IgnoreHidden([c EXCEPT !.layers = Tail(c.layers)], loc)

RECURSIVE Canvas_get_hex_rgb(_, _)
\* Canvas.get_hex_rgb(loc): the loop over self._layers, from the top
Canvas_get_hex_rgb(c, loc) == IF c.layers = <<>> THEN None
                              ELSE IF Head(c.layers).visible /\ get_pixel(Head(c.layers), loc) # None THEN convert_to_hex_rgb(get_pixel(Head(c.layers), loc))
                              ELSE Canvas_get_hex_rgb([c EXCEPT !.layers = Tail(c.layers)], loc)

\* a helper that only looks at the top layer
canvas_to_png_helper_TopOnly(ls, i, j) == IF ls # <<>> /\ ls[1].visible /\ get_pixel(ls[1], <<i, j>>) # None
                                          THEN <<get_pixel(ls[1], <<i, j>>)[1], get_pixel(ls[1], <<i, j>>)[2], get_pixel(ls[1], <<i, j>>)[3], 255>>
                                          ELSE None

RECURSIVE canvas_to_png_helper(_, _, _)
\* _canvas_to_png_helper(canvas, i, j), over the list canvas.get_layers()
canvas_to_png_helper(ls, i, j) == IF ls = <<>> THEN None
                                  ELSE IF Head(ls).visible /\ get_pixel(Head(ls), <<i, j>>) # None
                                       THEN LET c == get_pixel(Head(ls), <<i, j>>) IN <<c[1], c[2], c[3], 255>>
                                       ELSE canvas_to_png_helper(Tail(ls), i, j)

\* Image.new('RGBA', size, color)
Image_new(sz, color) == [i \in 0 .. (sz[1] - 1) |-> [j \in 0 .. (sz[2] - 1) |-> color]]

\* the image canvas_to_png builds and saves: putpixel where the helper returns a colour
canvas_to_png_image(c) == [i \in 0 .. (c.size[1] - 1) |-> [j \in 0 .. (c.size[2] - 1) |->
                              LET color == canvas_to_png_helper(c.layers, i, j)
                              IN  IF color # None THEN color ELSE Image_new(c.size, <<0, 0, 0, 0>>)[i][j]]]

\* the names f'layer {n + 1}' of blank_canvas, which has at most 9 layers
LayerNames == <<"layer 1", "layer 2", "layer 3", "layer 4", "layer 5", "layer 6", "layer 7", "layer 8", "layer 9">>

RECURSIVE blank_canvas_loop(_, _)
\* the while loop of blank_canvas
blank_canvas_loop(c, num_layers) == IF Len(c.layers) < num_layers
                                    THEN blank_canvas_loop(Canvas_add_layer(c, Layer_init(FreshId(c.layers), c.size, None, LayerNames[Len(c.layers) + 1])), num_layers)
                                    ELSE c

\* blank_canvas(width, height, num_layers)
blank_canvas(width, height, num_layers) == blank_canvas_loop(Canvas_init(<<width, height>>), num_layers)

----------------------------------------------------------------------------
(* canvas.py and layer.py: the .canvas file format.  A file is the         *)
(* sequence of its lines, each ending in a newline; readline past the end  *)
(* returns the empty string.                                               *)

NoneStr == <<"N", "o", "n", "e">>

TrueStr == <<"T", "r", "u", "e">>

FalseStr == <<"F", "a", "l", "s", "e">>

\* f'{layer.visible}'
BoolStr(b) == IF b THEN TrueStr ELSE FalseStr

\* a first line without a space after each comma
HeaderLine_NoSpaces(c) == IntToStr(c.size[1]) \o <<",">> \o IntToStr(c.size[2]) \o <<",">> \o IntToStr(Len(c.layers)) \o <<"\n">>

\* the first line Canvas.save writes
HeaderLine(c) == IntToStr(c.size[1]) \o <<",", " ">> \o IntToStr(c.size[2]) \o <<",", " ">> \o IntToStr(Len(c.layers)) \o <<"\n">>

\* the text _write_layer appends to data for one pixel
PixelToken(rgb) == IF rgb = None THEN NoneStr
                   ELSE <<"(">> \o IntToStr(rgb[1]) \o <<",", " ">> \o IntToStr(rgb[2]) \o <<",", " ">> \o IntToStr(rgb[3]) \o <<")">>

\* _write_layer that writes one line per column
write_layer_ByColumns(c, layer) == <<BoolStr(layer.visible) \o <<"\n">>>> \o [x \in 1 .. c.size[1] |-> Join([y \in 1 .. c.size[2] |-> PixelToken(get_pixel(layer, <<x - 1, y - 1>>))], <<"|">>) \o <<"\n">>]

\* the lines Canvas._write_layer(f, layer) writes
write_layer(c, layer) == <<BoolStr(layer.visible) \o <<"\n">>>> \o [y \in 1 .. c.size[2] |-> Join([x \in 1 .. c.size[1] |-> PixelToken(get_pixel(layer, <<x - 1, y - 1>>))], <<"|">>) \o <<"\n">>]

RECURSIVE WriteLayers(_, _)
\* the loop of Canvas.save over self._layers
WriteLayers(c, ls) == IF ls = <<>> THEN <<>> ELSE write_layer(c, Head(ls)) \o WriteLayers(c, Tail(ls))

\* the file Canvas.save(file_name) writes when file_name ends in '.canvas'
Canvas_save(c) == <<HeaderLine(c)>> \o WriteLayers(c, c.layers)

\* f.readline() when pos - 1 lines have been read
ReadLine(f, pos) == IF pos <= Len(f) THEN f[pos] ELSE <<>>

\* the rgb read_layer computes from one '|'-separated part of a line
ParseToken(pixel) == IF pixel = NoneStr THEN Ok(None)
                     ELSE LET parts == Split(RStrip(LStrip(pixel, {"("}), {")"}), ",")
                              r == ParseInt(parts[1], 10)
                              g == ParseInt(parts[2], 10)
                              b == ParseInt(parts[3], 10)
                          IN  IF ~r.ok THEN r
                              ELSE IF Len(parts) < 2 THEN Raise("IndexError")
                              ELSE IF ~g.ok THEN g
                              ELSE IF Len(parts) < 3 THEN Raise("IndexError")
                              ELSE IF ~b.ok THEN b
                              ELSE Ok(<<r.val, g.val, b.val>>)

RECURSIVE ReadRow(_, _, _, _, _)
\* the inner loop of read_layer over line.split("|"), from column col
ReadRow(pixels, tokens, row, col, width) == IF tokens = <<>> THEN Ok(pixels)
                                            ELSE The({IF ~rgb.ok THEN rgb
                                                      ELSE IF col >= width THEN Raise("IndexError")
                                                      ELSE ReadRow(SetRgb(pixels, <<col, row>>, rgb.val), Tail(tokens), row, col + 1, width) : rgb \in {ParseToken(Head(tokens))}})

RECURSIVE ReadRows(_, _, _, _, _)
\* the outer loop of read_layer over range(self.size[1]), from row
ReadRows(pixels, f, pos, row, sz) == IF row >= sz[2] THEN Ok(pixels)
                                     ELSE The({IF ~r.ok THEN r ELSE ReadRows(r.val, f, pos + 1, row + 1, sz) : r \in {ReadRow(pixels, Split(Strip(ReadLine(f, pos)), "|"), row, 0, sz[1])}})

\* Layer.read_layer(f) on the layer, f having pos - 1 lines read: the layer and the new position
read_layer(layer, f, pos) == The({IF ~r.ok THEN r
                                  ELSE Ok([layer |-> [layer EXCEPT !.visible = (Strip(ReadLine(f, pos)) = TrueStr), !.pixels = r.val], pos |-> pos + 1 + layer.size[2]]) : r \in {ReadRows(layer.pixels, f, pos + 1, 0, layer.size)}})

RECURSIVE LoadLayers_Named(_, _, _, _)
\* load_canvas that names the layers as blank_canvas does
LoadLayers_Named(c, f, pos, n) == IF n <= 0 THEN Ok(c)
                                  ELSE The({IF ~r.ok THEN r
                                            ELSE The({LoadLayers_Named(c2, f, r.val.pos, n - 1) : c2 \in {Canvas_add_layer(c, r.val.layer)}}) : r \in {read_layer(Layer_init(FreshId(c.layers), c.size, None, LayerNames[Len(c.layers) + 1]), f, pos)}})

RECURSIVE LoadLayers(_, _, _, _)
\* the loop of load_canvas over range(n_layers)
LoadLayers(c, f, pos, n) == IF n <= 0 THEN Ok(c)
                            ELSE The({IF ~r.ok THEN r
                                      ELSE The({LoadLayers(c2, f, r.val.pos, n - 1) : c2 \in {Canvas_add_layer(c, r.val.layer)}}) : r \in {read_layer(Layer_init(FreshId(c.layers), c.size, None, "Layer"), f, pos)}})

\* the header of load_canvas: the three ints of the first line
ReadHeader(f) == The({IF Len(parts) # 3 THEN Raise("ValueError")
                      ELSE The({IF ~width.ok THEN width
                                ELSE IF ~height.ok THEN height
                                ELSE IF ~n_layers.ok THEN n_layers
                                ELSE Ok(<<width.val, height.val, n_layers.val>>) : width \in {ParseInt(parts[1], 10)}, height \in {ParseInt(parts[2], 10)}, n_layers \in {ParseInt(parts[3], 10)}}) : parts \in {Split(Strip(ReadLine(f, 1)), ",")}})

\* load_canvas(path), f being the lines of the file at path
load_canvas_file(f) == The({IF ~h.ok THEN h
                            ELSE The({IF ~c.ok THEN c ELSE Ok([c.val EXCEPT !.active_layer_index = 0]) : c \in {LoadLayers(Canvas_init(<<h.val[1], h.val[2]>>), f, 2, h.val[3])}}) : h \in {ReadHeader(f)}})

----------------------------------------------------------------------------
(* The calls a client makes on a canvas.  last records the most recent     *)
(* call: its name, its arguments, the canvas before it and what it         *)
(* returned.                                                               *)

Call(op, pre, layer, i, ret) == [op |-> op, pre |-> pre, layer |-> layer, i |-> i, loc |-> <<0, 0>>, ret |-> ret]

\* a call that takes a location
CallAt(op, pre, loc, ret) == [op |-> op, pre |-> pre, layer |-> 0, i |-> 0, loc |-> loc, ret |-> ret]

NoFile == <<>>

\* no Pixel or Layer object is kept by reference
NoHeap == [rgb |-> <<>>, layers |-> <<>>]

\* no front end is running
NoGui == <<>>

\* the Layer objects a client passes to add_layer: of the canvas's size and not in
\* the canvas; a default layer, and a hidden coloured one with a name of its own
NewLayers(c) == LET ident == FreshId(c.layers)
                IN  {Layer_init(ident, c.size, None, "Layer"),
                     [Layer_init(ident, c.size, <<0, 15, 16>>, "layer 1") EXCEPT !.visible = FALSE]}

Init == /\ \E sz \in Sizes : canvas = Canvas_init(sz)
        /\ last = Call("Canvas", canvas, 0, 0, None)
        /\ file = NoFile
        /\ gui = NoGui
        /\ heap = NoHeap

add_layer == /\ Len(canvas.layers) < MaxLayers
             /\ \E layer \in NewLayers(canvas) :
                    /\ canvas' = Canvas_add_layer(canvas, layer)
                    /\ last' = Call("add_layer", canvas, layer.id, 0, None)
             /\ UNCHANGED <<file, heap, gui>>

remove_layer == /\ Len(canvas.layers) >= 2
                /\ \E ident \in Ids(canvas.layers) :
                       /\ canvas' = Canvas_remove_layer(canvas, ident)
                       /\ last' = Call("remove_layer", canvas, ident, 0, None)
                /\ UNCHANGED <<file, heap, gui>>

move_layer == /\ \E ident \in Ids(canvas.layers), i \in (-MaxShift) .. MaxShift :
                     /\ canvas' = Canvas_move_layer(canvas, ident, i)
                     /\ last' = Call("move_layer", canvas, ident, i, None)
              /\ UNCHANGED <<file, heap, gui>>

set_active_layer_index == /\ \E k \in 0 .. (Len(canvas.layers) - 1) :
                                 /\ canvas' = [canvas EXCEPT !.active_layer_index = k]
                                 /\ last' = Call("set_active_layer_index", canvas, 0, k, None)
                          /\ UNCHANGED <<file, heap, gui>>

change_active_layer == /\ \E ident \in Ids(canvas.layers) :
                              /\ canvas' = [canvas EXCEPT !.active_layer_index = IndexOf(canvas.layers, ident)]
                              /\ last' = Call("change_active_layer", canvas, ident, 0, None)
                       /\ UNCHANGED <<file, heap, gui>>

upscale == /\ canvas.size[1] * 2 <= MaxDim
           /\ canvas.size[2] * 2 <= MaxDim
           /\ canvas' = Canvas_upscale(canvas)
           /\ last' = Call("upscale", canvas, 0, 0, None)
           /\ UNCHANGED <<file, heap, gui>>

downscale == /\ canvas.size[1] % 2 = 0
             /\ canvas.size[2] % 2 = 0
             /\ canvas.size[1] > 1
             /\ canvas.size[2] > 1
             /\ canvas' = Canvas_downscale(canvas)
             /\ last' = Call("downscale", canvas, 0, 0, None)
             /\ UNCHANGED <<file, heap, gui>>

Next == \/ add_layer
        \/ remove_layer
        \/ move_layer
        \/ set_active_layer_index
        \/ change_active_layer
        \/ upscale
        \/ downscale

Spec == Init /\ [][Next]_vars

----------------------------------------------------------------------------
(* Drawing and compositing: blank canvases whose pixels and visibility     *)
(* flags are changed and whose composite is read                           *)

\* largest number of layers of a canvas that is drawn on
MaxPixLayers == 2

\* the sizes of the canvases that are drawn on and saved
PixSizes == {<<1, 2>>, <<2, 1>>}

\* the strings passed to Pixel.set: '#000f10' and '#FF8007'
BrushColours == {<<"#", "0", "0", "0", "f", "1", "0">>, <<"#", "F", "F", "8", "0", "0", "7">>}

Locs(sz) == {<<x, y>> : x \in 0 .. (sz[1] - 1), y \in 0 .. (sz[2] - 1)}

InitPix == /\ \E sz \in PixSizes, n \in 0 .. MaxPixLayers : canvas = blank_canvas(sz[1], sz[2], n)
           /\ last = Call("blank_canvas", canvas, 0, 0, None)
           /\ file = NoFile
           /\ gui = NoGui
           /\ heap = NoHeap

\* canvas.get_layer(k).get_pixel(loc).set(colour_hex_str)
set_pixel == /\ \E k \in 0 .. (Len(canvas.layers) - 1), loc \in Locs(canvas.size), colour_hex_str \in BrushColours \cup {None} :
                    /\ canvas' = [canvas EXCEPT !.layers[k + 1].pixels = SetRgb(@, loc, Pixel_set(colour_hex_str))]
                    /\ last' = CallAt("set", canvas, loc, None)
             /\ UNCHANGED <<file, heap, gui>>

\* layer.visible = not layer.visible on canvas.get_layer(k)
toggle_visible == /\ \E k \in 0 .. (Len(canvas.layers) - 1) :
                         /\ canvas' = [canvas EXCEPT !.layers[k + 1].visible = ~@]
                         /\ last' = Call("toggle_visible", canvas, canvas.layers[k + 1].id, k, None)
                  /\ UNCHANGED <<file, heap, gui>>

get_hex_rgb == /\ \E loc \in Locs(canvas.size) : last' = CallAt("get_hex_rgb", canvas, loc, Canvas_get_hex_rgb(canvas, loc))
               /\ UNCHANGED <<canvas, file, heap, gui>>

canvas_to_png == /\ last' = Call("canvas_to_png", canvas, 0, 0, canvas_to_png_image(canvas))
                 /\ UNCHANGED <<canvas, file, heap, gui>>

NextPix == \/ set_pixel
           \/ toggle_visible
           \/ get_hex_rgb
           \/ canvas_to_png

SpecPix == InitPix /\ [][NextPix]_vars

----------------------------------------------------------------------------
(* Saving and loading: a canvas is saved to a .canvas file and the file is *)
(* loaded                                                                  *)

\* largest number of layers of a canvas that is saved
MaxFileLayers == 2

\* the rgb values of the pixels of the canvases saved
PixelValues == {None, <<0, 15, 255>>}

\* the layers of the canvases saved: any name of two, visible or hidden, any pixels
FileLayers(sz, ident) == {[id |-> ident, name |-> name, visible |-> v, size |-> sz, pixels |-> px] : name \in {"Layer", "layer 1"}, v \in BOOLEAN, px \in [0 .. (sz[1] - 1) -> [0 .. (sz[2] - 1) -> PixelValues]]}

\* the canvases saved: what add_layer, Pixel.set, visible and set_active_layer_index make of Canvas(size)
InitFile == /\ \E sz \in PixSizes, n \in 0 .. MaxFileLayers :
                   \E ls \in [1 .. n -> FileLayers(sz, 0)], a \in 0 .. Max(0, n - 1) :
                       canvas = [size |-> sz, active_layer_index |-> IF n = 0 THEN -1 ELSE a, layers |-> [k \in 1 .. n |-> [ls[k] EXCEPT !.id = k]]]
            /\ last = Call("Canvas", canvas, 0, 0, None)
            /\ file = NoFile
            /\ gui = NoGui
            /\ heap = NoHeap

\* canvas.save('x.canvas')
save == /\ file' = Canvas_save(canvas)
        /\ last' = Call("save", canvas, 0, 0, None)
        /\ UNCHANGED <<canvas, heap, gui>>

\* load_canvas('x.canvas')
load_canvas == /\ file # NoFile
               /\ last' = Call("load_canvas", canvas, 0, 0, load_canvas_file(file))
               /\ UNCHANGED <<canvas, file, heap, gui>>

NextFile == \/ save
            \/ load_canvas

SpecFile == InitFile /\ [][NextFile]_vars

----------------------------------------------------------------------------
(* Properties of the layer stack *)

\* what the properties read of the most recent call
PreLayers == last.pre.layers

PreActive == last.pre.active_layer_index

\* the (0-based) index the layer last.layer had before the call
PreIndex == CHOOSE k \in 0 .. (Len(PreLayers) - 1) : PreLayers[k + 1].id = last.layer

\* a list of layers without the Layer object ident
Without(ls, ident) == SelectSeq(ls, LAMBDA l : l.id # ident)

\* the object the active index designates
ActiveId(c) == c.layers[c.active_layer_index + 1].id

\* C1: active_layer_index is -1 exactly when the canvas has no layers, and is
\* otherwise a valid index, 0 <= active_layer_index < number of layers.
C1_ActiveIndexInRange == /\ (canvas.active_layer_index = -1) <=> (Len(canvas.layers) = 0)
                         /\ Len(canvas.layers) > 0 => (0 <= canvas.active_layer_index /\ canvas.active_layer_index < Len(canvas.layers))

\* C1 witness: the active bottom-most layer of three was removed
C1_Witness == /\ last.op = "remove_layer"
              /\ Len(PreLayers) = 3
              /\ PreActive = 2
              /\ PreIndex = 2
              /\ canvas.active_layer_index = 1

\* C2: every layer has the size of the canvas, and a pixel grid of exactly
\* that width and height.
C2_LayerSizes == \A k \in 1 .. Len(canvas.layers) :
                     /\ canvas.layers[k].size = canvas.size
                     /\ DOMAIN canvas.layers[k].pixels = 0 .. (canvas.size[1] - 1)
                     /\ \A col \in 0 .. (canvas.size[1] - 1) : DOMAIN canvas.layers[k].pixels[col] = 0 .. (canvas.size[2] - 1)

\* C2 witness: a canvas of two layers that is not square was upscaled and then downscaled
C2_Witness == /\ last.op = "downscale"
              /\ last.pre.size = <<2, 4>>
              /\ canvas.size = <<1, 2>>
              /\ Len(canvas.layers) = 2

\* C3: remove_layer of a layer that is not the active one leaves the active
\* index on the same layer object; the index is one less when the removed layer
\* was above the active one and unchanged when it was below; the other layers
\* keep their order.
C3_RemoveOther == (last.op = "remove_layer" /\ PreIndex # PreActive) =>
                      /\ PreIndex < PreActive => canvas.active_layer_index = PreActive - 1
                      /\ PreIndex > PreActive => canvas.active_layer_index = PreActive
                      /\ ActiveId(canvas) = ActiveId(last.pre)
                      /\ canvas.layers = Without(PreLayers, last.layer)
                      /\ Len(canvas.layers) = Len(PreLayers) - 1

\* C3 witness: the top layer was removed while the bottom one of three was active
C3_Witness == /\ last.op = "remove_layer"
              /\ Len(PreLayers) = 3
              /\ PreIndex = 0
              /\ PreActive = 2
              /\ canvas.active_layer_index = 1

\* C4: remove_layer of the active layer leaves the active index unchanged when
\* it is still a valid index, and it then designates the layer that was directly
\* below the removed one; it becomes the new last index when the removed layer
\* was the bottom-most.
C4_RemoveActive == (last.op = "remove_layer" /\ PreIndex = PreActive) =>
                       /\ PreActive < Len(PreLayers) - 1 =>
                              /\ canvas.active_layer_index = PreActive
                              /\ ActiveId(canvas) = PreLayers[PreActive + 2].id
                       /\ PreActive = Len(PreLayers) - 1 => canvas.active_layer_index = Len(canvas.layers) - 1
                       /\ Len(canvas.layers) = Len(PreLayers) - 1

\* C4 witness: the active bottom-most layer of two was removed
C4_Witness == /\ last.op = "remove_layer"
              /\ Len(PreLayers) = 2
              /\ PreIndex = 1
              /\ PreActive = 1
              /\ canvas.active_layer_index = 0

\* the (0-based) index at which the Layer object ident is in the canvas
IndexNow(ident) == CHOOSE k \in 0 .. (Len(canvas.layers) - 1) : canvas.layers[k + 1].id = ident

\* max(0, min(p - i, n - 1)), spelt out
Clamped(p, i, n) == IF p - i < 0 THEN 0 ELSE IF p - i > n - 1 THEN n - 1 ELSE p - i

\* C5: move_layer(L, i) of the layer at index p of n layers places L at index
\* max(0, min(p - i, n - 1)); the result is a permutation of the original in
\* which the layers other than L keep their order.
C5_MoveDestination == last.op = "move_layer" =>
                          /\ Len(canvas.layers) = Len(PreLayers)
                          /\ canvas.layers[Clamped(PreIndex, last.i, Len(PreLayers)) + 1] = PreLayers[PreIndex + 1]
                          /\ Without(canvas.layers, last.layer) = Without(PreLayers, last.layer)
                          /\ Len(Without(canvas.layers, last.layer)) = Len(PreLayers) - 1

\* C5 witness: the top layer of three was moved two places down, to the bottom
C5_Witness == /\ last.op = "move_layer"
              /\ Len(PreLayers) = 3
              /\ PreIndex = 0
              /\ last.i = -2
              /\ IndexNow(last.layer) = 2

\* C6: after move_layer the active index designates the layer object that was
\* active before the call.
C6_MoveKeepsActive == last.op = "move_layer" => ActiveId(canvas) = ActiveId(last.pre)

\* C6 witness: the moved layer crossed over the active layer
C6_Witness == /\ last.op = "move_layer"
              /\ Len(PreLayers) = 3
              /\ PreIndex = 0
              /\ PreActive = 1
              /\ IndexNow(last.layer) = 2
              /\ canvas.active_layer_index = 0

\* C7: add_layer(L) makes L the last element and leaves the existing layers and
\* their order unchanged; the active index becomes 0 if the canvas had no
\* layers and is unchanged otherwise.
C7_AddLayer == last.op = "add_layer" =>
                   /\ Len(canvas.layers) = Len(PreLayers) + 1
                   /\ canvas.layers[Len(canvas.layers)].id = last.layer
                   /\ \A k \in 1 .. Len(PreLayers) : canvas.layers[k] = PreLayers[k]
                   /\ canvas.active_layer_index = (IF Len(PreLayers) = 0 THEN 0 ELSE PreActive)
                   /\ canvas.size = last.pre.size

\* C7 witness: a third layer was added below two, the second of them active
C7_Witness == /\ last.op = "add_layer"
              /\ Len(PreLayers) = 2
              /\ PreActive = 1
              /\ canvas.active_layer_index = 1
              /\ IndexNow(last.layer) = 2

----------------------------------------------------------------------------
(* Properties of compositing, the raster and the .canvas file *)

\* the layer at (1-based) position k is visible and not transparent at loc
Resolves(c, k, loc) == c.layers[k].visible /\ c.layers[k].pixels[loc[1]][loc[2]] # None

\* the positions of the layers that resolve loc
Resolving(c, loc) == {k \in 1 .. Len(c.layers) : Resolves(c, k, loc)}

\* the top-most of them
TopResolving(c, loc) == CHOOSE k \in Resolving(c, loc) : \A j \in Resolving(c, loc) : k <= j

\* C8: get_hex_rgb(loc) returns the colour of the first layer from the top that
\* is visible and not transparent at loc, and None when there is none; hidden
\* layers and the layers below the resolving one do not influence the result.
C8_CompositeColour == last.op = "get_hex_rgb" =>
                          IF Resolving(canvas, last.loc) = {} THEN last.ret = None
                          ELSE /\ last.ret # None
                               /\ Len(last.ret) = 7
                               /\ Pixel_set(last.ret) = canvas.layers[TopResolving(canvas, last.loc)].pixels[last.loc[1]][last.loc[2]]

\* C8 witness: the top layer is hidden and coloured, the one below is visible
\* and of another colour, and the colour returned is that of the one below
C8_Witness == /\ last.op = "get_hex_rgb"
              /\ Len(canvas.layers) = 2
              /\ ~canvas.layers[1].visible
              /\ canvas.layers[1].pixels[last.loc[1]][last.loc[2]] = <<255, 128, 7>>
              /\ canvas.layers[2].visible
              /\ canvas.layers[2].pixels[last.loc[1]][last.loc[2]] = <<0, 15, 16>>
              /\ last.ret = <<"#", "0", "0", "0", "f", "1", "0">>

\* C9: the raster canvas_to_png builds has the canvas's size; at every (i, j)
\* it is (r, g, b, 255) exactly when get_hex_rgb((i, j)) is the colour
\* (r, g, b), and (0, 0, 0, 0) exactly when get_hex_rgb((i, j)) is None.
C9_RasterIsComposite == last.op = "canvas_to_png" =>
                            /\ DOMAIN last.ret = 0 .. (canvas.size[1] - 1)
                            /\ \A i \in 0 .. (canvas.size[1] - 1) :
                                   /\ DOMAIN last.ret[i] = 0 .. (canvas.size[2] - 1)
                                   /\ \A j \in 0 .. (canvas.size[2] - 1) :
                                          /\ (last.ret[i][j] = <<0, 0, 0, 0>>) <=> (Canvas_get_hex_rgb(canvas, <<i, j>>) = None)
                                          /\ Canvas_get_hex_rgb(canvas, <<i, j>>) # None =>
                                                 /\ last.ret[i][j][4] = 255
                                                 /\ <<last.ret[i][j][1], last.ret[i][j][2], last.ret[i][j][3]>> = Pixel_set(Canvas_get_hex_rgb(canvas, <<i, j>>))

\* C9 witness: a raster with a transparent value and a value taken from the
\* second layer, under a top layer that is transparent there
C9_Witness == /\ last.op = "canvas_to_png"
              /\ canvas.size = <<2, 1>>
              /\ Len(canvas.layers) = 2
              /\ last.ret[0][0] = <<0, 0, 0, 0>>
              /\ last.ret[1][0] = <<0, 15, 16, 255>>
              /\ canvas.layers[1].pixels[1][0] = None

\* two canvases have the same size, as many layers, and at every position a
\* layer of the same visibility and the same pixels
SameContent(c, d) == /\ c.size = d.size
                     /\ Len(c.layers) = Len(d.layers)
                     /\ \A k \in 1 .. Len(c.layers) :
                            /\ c.layers[k].visible = d.layers[k].visible
                            /\ c.layers[k].size = d.layers[k].size
                            /\ \A x \in 0 .. (d.size[1] - 1), y \in 0 .. (d.size[2] - 1) : c.layers[k].pixels[x][y] = d.layers[k].pixels[x][y]

\* C10: load_canvas of the file that C.save('x.canvas') wrote returns a canvas
\* of the same size, with as many layers in the same order, each of the same
\* visibility and with the same rgb at every coordinate.
C10_SaveLoadRoundTrip == (last.op = "load_canvas" /\ file = Canvas_save(canvas)) =>
                             /\ last.ret.ok
                             /\ SameContent(last.ret.val, canvas)

\* C10 witness: a canvas of two layers, the top one hidden, each with a coloured
\* and a transparent pixel at different places, was saved and loaded
C10_Witness == /\ last.op = "load_canvas"
               /\ last.ret.ok
               /\ canvas.size = <<1, 2>>
               /\ Len(last.ret.val.layers) = 2
               /\ ~last.ret.val.layers[1].visible
               /\ last.ret.val.layers[2].visible
               /\ last.ret.val.layers[1].pixels[0][0] = <<0, 15, 255>>
               /\ last.ret.val.layers[1].pixels[0][1] = None
               /\ last.ret.val.layers[2].pixels[0][0] = None
               /\ last.ret.val.layers[2].pixels[0][1] = <<0, 15, 255>>
               /\ canvas.layers[2].pixels[0][1] = <<0, 15, 255>>

\* two canvases are equal but for the identity of their Layer objects
SameCanvas(c, d) == /\ SameContent(c, d)
                    /\ c.active_layer_index = d.active_layer_index
                    /\ \A k \in 1 .. Len(c.layers) : c.layers[k].name = d.layers[k].name

C12_LoadedActiveIndex == (last.op = "load_canvas" /\ last.ret.ok) =>
                             /\ (last.ret.val.active_layer_index = -1) <=> (Len(last.ret.val.layers) = 0)
                             /\ Len(last.ret.val.layers) > 0 => last.ret.val.active_layer_index = 0

----------------------------------------------------------------------------
(* layer.py with the Pixel objects kept by reference: a Layer object of    *)
(* heap.layers has a grid of references to Pixel objects, and heap.rgb[a]  *)
(* is the rgb attribute of the Pixel object a.  Layer.__init__ builds the  *)
(* grid and no method assigns to it afterwards.                            *)

\* Layer.__init__ that fills a column with one Pixel object: [Pixel(bg)] * size[1]
Heap_Layer_init_SharedColumn(h, sz, bg, name) == [rgb |-> h.rgb \o [k \in 1 .. sz[1] |-> bg],
                                                  layers |-> Append(h.layers, [name |-> name, visible |-> TRUE, size |-> sz, pixels |-> [col \in 0 .. (sz[1] - 1) |-> [row \in 0 .. (sz[2] - 1) |-> Len(h.rgb) + col + 1]]])]

\* Layer(size, bg, name): a new Pixel(bg) object for every cell, column by column
Heap_Layer_init(h, sz, bg, name) == [rgb |-> h.rgb \o [k \in 1 .. (sz[1] * sz[2]) |-> bg],
                                     layers |-> Append(h.layers, [name |-> name, visible |-> TRUE, size |-> sz, pixels |-> [col \in 0 .. (sz[1] - 1) |-> [row \in 0 .. (sz[2] - 1) |-> Len(h.rgb) + col * sz[2] + row + 1]]])]

\* pixel.rgb = rgb_value for the Pixel object that the layer's get_pixel(loc) returns
Heap_set_rgb(rgb, layer, loc, rgb_value) == [rgb EXCEPT ![layer.pixels[loc[1]][loc[2]]] = rgb_value]

\* the loops' body of Layer.upscale that forgets the copy at (x * 2 + 1, y * 2 + 1)
Heap_upscale_step_ThreeCopies(rgb, self, new_layer, x, y) == The({Heap_set_rgb(Heap_set_rgb(Heap_set_rgb(rgb, new_layer, <<x * 2, y * 2>>, rgb_value), new_layer, <<x * 2 + 1, y * 2>>, rgb_value), new_layer, <<x * 2, y * 2 + 1>>, rgb_value) : rgb_value \in {rgb[self.pixels[x][y]]}})

\* the body of the loops of Layer.upscale for the source pixel (x, y)
Heap_upscale_step(rgb, self, new_layer, x, y) == The({Heap_set_rgb(Heap_set_rgb(Heap_set_rgb(Heap_set_rgb(rgb, new_layer, <<x * 2, y * 2>>, rgb_value), new_layer, <<x * 2 + 1, y * 2>>, rgb_value), new_layer, <<x * 2, y * 2 + 1>>, rgb_value), new_layer, <<x * 2 + 1, y * 2 + 1>>, rgb_value) : rgb_value \in {rgb[self.pixels[x][y]]}})

RECURSIVE Heap_upscale_loop(_, _, _, _)
\* the loops of Layer.upscale from the k'th source pixel on, x outermost
Heap_upscale_loop(rgb, self, new_layer, k) == IF k >= self.size[1] * self.size[2] THEN rgb
                                              ELSE The({Heap_upscale_loop(r, self, new_layer, k + 1) : r \in {Heap_upscale_step(rgb, self, new_layer, k \div self.size[2], k % self.size[2])}})

\* self.upscale() for the Layer object self of the heap; the new layer is the last of heap.layers
Heap_upscale(h, self) == LET new_size == <<h.layers[self].size[1] * 2, h.layers[self].size[2] * 2>>
                             h1 == Heap_Layer_init(h, new_size, None, h.layers[self].name)
                             new_layer == Len(h1.layers)
                         IN  [rgb |-> Heap_upscale_loop(h1.rgb, h.layers[self], h1.layers[new_layer], 0),
                              layers |-> [h1.layers EXCEPT ![new_layer].visible = h.layers[self].visible]]

\* the loops' body of Layer.downscale that reads the row 2 * y twice
Heap_downscale_step_OneRow(rgb, self, new_layer, x, y) == Heap_set_rgb(rgb, new_layer, <<x, y>>, average_pixels(<<rgb[self.pixels[2 * x][2 * y]], rgb[self.pixels[2 * x + 1][2 * y]], rgb[self.pixels[2 * x][2 * y]], rgb[self.pixels[2 * x + 1][2 * y]]>>))

\* the body of the loops of Layer.downscale for the new pixel (x, y)
Heap_downscale_step(rgb, self, new_layer, x, y) == Heap_set_rgb(rgb, new_layer, <<x, y>>, average_pixels(<<rgb[self.pixels[2 * x][2 * y]], rgb[self.pixels[2 * x + 1][2 * y]], rgb[self.pixels[2 * x][2 * y + 1]], rgb[self.pixels[2 * x + 1][2 * y + 1]]>>))

RECURSIVE Heap_downscale_loop(_, _, _, _)
\* the loops of Layer.downscale from the k'th new pixel on, x outermost
Heap_downscale_loop(rgb, self, new_layer, k) == IF k >= new_layer.size[1] * new_layer.size[2] THEN rgb
                                                ELSE The({Heap_downscale_loop(r, self, new_layer, k + 1) : r \in {Heap_downscale_step(rgb, self, new_layer, k \div new_layer.size[2], k % new_layer.size[2])}})

\* self.downscale() for the Layer object self of the heap; the new layer is the last of heap.layers
Heap_downscale(h, self) == LET new_size == <<h.layers[self].size[1] \div 2, h.layers[self].size[2] \div 2>>
                               h1 == Heap_Layer_init(h, new_size, None, h.layers[self].name)
                               new_layer == Len(h1.layers)
                           IN  [rgb |-> Heap_downscale_loop(h1.rgb, h.layers[self], h1.layers[new_layer], 0),
                                layers |-> [h1.layers EXCEPT ![new_layer].visible = h.layers[self].visible]]

\* what a client reads of the Layer object k: its attributes and get_pixel(loc).rgb at every loc
View(h, k) == [id |-> k, name |-> h.layers[k].name, visible |-> h.layers[k].visible, size |-> h.layers[k].size,
               pixels |-> [col \in 0 .. (h.layers[k].size[1] - 1) |-> [row \in 0 .. (h.layers[k].size[2] - 1) |-> h.rgb[h.layers[k].pixels[col][row]]]]]

----------------------------------------------------------------------------
(* Scaling a layer: a layer is built, Layer.upscale and Layer.downscale    *)
(* are called on it and on the layer the call before returned, and one     *)
(* pixel of the source or of the result is then assigned                   *)

\* largest number of transforms in a row
MaxChain == 2

\* the sizes of the first layer
LayerSizes == {<<1, 2>>, <<2, 1>>, <<2, 2>>}

\* the rgb values of its pixels
LayerValues == {None, <<1, 2, 3>>, <<2, 3, 5>>}

\* the sizes of the first layer when its pixels are of one colour or transparent
WideSizes == {<<2, 4>>, <<4, 2>>}

\* a heap with one layer: Layer(sz, None, name) whose visible attribute and whose pixels' rgb were assigned
HeapWith(sz, name, visible, rgb) == LET h == Heap_Layer_init(NoHeap, sz, None, name)
                                    IN  [rgb |-> rgb, layers |-> [h.layers EXCEPT ![1].visible = visible]]

\* the layer of the second doctest of Layer.downscale
DoctestHeap == LET h == Heap_Layer_init(NoHeap, <<4, 4>>, <<212, 153, 185>>, "Layer")
               IN  [h EXCEPT !.rgb = Heap_set_rgb(Heap_set_rgb(Heap_set_rgb(h.rgb, h.layers[1], <<3, 0>>, None), h.layers[1], <<0, 2>>, None), h.layers[1], <<2, 2>>, <<88, 129, 87>>)]

InitLayer == /\ \/ \E sz \in LayerSizes, name \in {"Layer", "layer 1"}, visible \in BOOLEAN :
                       \E rgb \in [1 .. (sz[1] * sz[2]) -> LayerValues] : heap = HeapWith(sz, name, visible, rgb)
                \/ \E sz \in WideSizes : \E rgb \in [1 .. (sz[1] * sz[2]) -> {None, <<2, 3, 5>>}] : heap = HeapWith(sz, "Layer", TRUE, rgb)
                \/ heap = DoctestHeap
             /\ canvas = Canvas_init(heap.layers[1].size)
             /\ last = Call("Layer", View(heap, 1), 1, 1, View(heap, 1))
             /\ file = NoFile
             /\ gui = NoGui

\* new_layer = layer.upscale() for the newest Layer object; last.i is the reference of new_layer
Layer_upscale_call == /\ last.op # "rgb"
                      /\ Len(heap.layers) <= MaxChain
                      /\ heap.layers[Len(heap.layers)].size[1] * 2 <= MaxDim
                      /\ heap.layers[Len(heap.layers)].size[2] * 2 <= MaxDim
                      /\ heap' = Heap_upscale(heap, Len(heap.layers))
                      /\ last' = Call("Layer.upscale", View(heap, Len(heap.layers)), Len(heap.layers), Len(heap'.layers), View(heap', Len(heap'.layers)))
                      /\ UNCHANGED <<canvas, file, gui>>

\* new_layer = layer.downscale() for the newest Layer object, under the preconditions of downscale
Layer_downscale_call == /\ last.op # "rgb"
                        /\ Len(heap.layers) <= MaxChain
                        /\ heap.layers[Len(heap.layers)].size[1] % 2 = 0
                        /\ heap.layers[Len(heap.layers)].size[2] % 2 = 0
                        /\ heap.layers[Len(heap.layers)].size[1] > 1
                        /\ heap.layers[Len(heap.layers)].size[2] > 1
                        /\ heap' = Heap_downscale(heap, Len(heap.layers))
                        /\ last' = Call("Layer.downscale", View(heap, Len(heap.layers)), Len(heap.layers), Len(heap'.layers), View(heap', Len(heap'.layers)))
                        /\ UNCHANGED <<canvas, file, gui>>

\* layer.get_pixel(loc).rgb = (0, 15, 16) after a transform, layer being its source or its result
rgb_assign == /\ last.op \in {"Layer.upscale", "Layer.downscale"}
              /\ \E k \in {last.layer, last.i} : \E loc \in Locs(heap.layers[k].size) :
                     /\ heap' = [heap EXCEPT !.rgb = Heap_set_rgb(heap.rgb, heap.layers[k], loc, <<0, 15, 16>>)]
                     /\ last' = [op |-> "rgb", pre |-> heap, layer |-> k, i |-> 0, loc |-> loc, ret |-> <<0, 15, 16>>]
              /\ UNCHANGED <<canvas, file, gui>>

NextLayer == \/ Layer_upscale_call
             \/ Layer_downscale_call
             \/ rgb_assign

SpecLayer == InitLayer /\ [][NextLayer]_vars

\* C13: Layer.downscale on a layer of even width w > 1 and even height h > 1
\* returns a layer of size (w/2, h/2) with the same name and visibility, whose
\* pixel (x, y) is average_pixels of the source pixels (2x, 2y), (2x+1, 2y),
\* (2x, 2y+1) and (2x+1, 2y+1).
C13_LayerDownscale == last.op = "Layer.downscale" =>
                          /\ 2 * last.ret.size[1] = last.pre.size[1]
                          /\ 2 * last.ret.size[2] = last.pre.size[2]
                          /\ last.ret.name = last.pre.name
                          /\ last.ret.visible = last.pre.visible
                          /\ DOMAIN heap.layers[last.i].pixels = 0 .. (last.ret.size[1] - 1)
                          /\ \A x \in 0 .. (last.ret.size[1] - 1) :
                                 /\ DOMAIN heap.layers[last.i].pixels[x] = 0 .. (last.ret.size[2] - 1)
                                 /\ \A y \in 0 .. (last.ret.size[2] - 1) :
                                        last.ret.pixels[x][y] = average_pixels(<<last.pre.pixels[2 * x][2 * y], last.pre.pixels[2 * x + 1][2 * y], last.pre.pixels[2 * x][2 * y + 1], last.pre.pixels[2 * x + 1][2 * y + 1]>>)

\* C13 witness: the second doctest of Layer.downscale, whose last block averages
\* three pixels of one colour and one of another, with a channel at an exact half
C13_Witness == /\ last.op = "Layer.downscale"
               /\ last.pre.size = <<4, 4>>
               /\ last.pre.pixels[2][2] = <<88, 129, 87>>
               /\ last.ret.size = <<2, 2>>
               /\ last.ret.pixels[0][0] = <<212, 153, 185>>
               /\ last.ret.pixels[1][0] = <<212, 153, 185>>
               /\ last.ret.pixels[1][1] = <<181, 147, 160>>

\* C15: Layer.upscale on a layer of size (w, h) returns a layer of size (2w, 2h)
\* with the same name and visibility, whose pixel (X, Y) has the rgb of the
\* source pixel (X div 2, Y div 2); the source layer is unchanged.
C15_LayerUpscale == last.op = "Layer.upscale" =>
                        /\ last.ret.size = <<2 * last.pre.size[1], 2 * last.pre.size[2]>>
                        /\ last.ret.name = last.pre.name
                        /\ last.ret.visible = last.pre.visible
                        /\ DOMAIN heap.layers[last.i].pixels = 0 .. (2 * last.pre.size[1] - 1)
                        /\ \A X \in 0 .. (2 * last.pre.size[1] - 1) :
                               /\ DOMAIN heap.layers[last.i].pixels[X] = 0 .. (2 * last.pre.size[2] - 1)
                               /\ \A Y \in 0 .. (2 * last.pre.size[2] - 1) : last.ret.pixels[X][Y] = last.pre.pixels[X \div 2][Y \div 2]
                        /\ View(heap, last.layer) = last.pre

\* C15 witness: a hidden layer of one column, coloured above and transparent
\* below, was upscaled
C15_Witness == /\ last.op = "Layer.upscale"
               /\ last.pre.size = <<1, 2>>
               /\ last.pre.name = "layer 1"
               /\ ~last.pre.visible
               /\ last.pre.pixels[0][0] = <<1, 2, 3>>
               /\ last.pre.pixels[0][1] = None
               /\ last.ret.pixels[1][1] = <<1, 2, 3>>
               /\ last.ret.pixels[1][2] = None
               /\ ~last.ret.visible

\* the cells of the Layer objects ks: a layer and a location of it
Cells(h, ks) == UNION {{<<k, loc>> : loc \in Locs(h.layers[k].size)} : k \in ks}

\* the Pixel object at a cell
PixelAt(h, cell) == h.layers[cell[1]].pixels[cell[2][1]][cell[2][2]]

\* C16: the layer that Layer.upscale or Layer.downscale returns shares no Pixel
\* object with the source layer and holds a Pixel object of its own at every
\* coordinate: assigning the rgb of one pixel of the result or of the source
\* changes no other pixel of any layer.
C16_NoSharedPixels == /\ last.op \in {"Layer.upscale", "Layer.downscale"} =>
                             \A c \in Cells(heap, {last.layer, last.i}), d \in Cells(heap, {last.layer, last.i}) :
                                 c # d => PixelAt(heap, c) # PixelAt(heap, d)
                      /\ last.op = "rgb" =>
                             /\ heap.layers = last.pre.layers
                             /\ heap.rgb[PixelAt(heap, <<last.layer, last.loc>>)] = last.ret
                             /\ \A c \in Cells(heap, 1 .. Len(heap.layers)) :
                                    c # <<last.layer, last.loc>> => heap.rgb[PixelAt(heap, c)] = last.pre.rgb[PixelAt(last.pre, c)]

\* C16 witness: a pixel of the result of an upscale was assigned another
\* colour than it had, and the source pixel it was copied from kept its colour
C16_Witness == /\ last.op = "rgb"
               /\ last.layer = 2
               /\ last.loc = <<1, 1>>
               /\ heap.layers[1].size = <<1, 2>>
               /\ heap.layers[2].size = <<2, 4>>
               /\ last.pre.rgb[PixelAt(last.pre, <<2, <<1, 1>>>>)] = <<1, 2, 3>>
               /\ View(heap, 2).pixels[1][1] = <<0, 15, 16>>
               /\ View(heap, 2).pixels[0][0] = <<1, 2, 3>>
               /\ View(heap, 1).pixels[0][0] = <<1, 2, 3>>

\* every aligned 2x2 block of a layer holds one rgb value
UniformBlocks(layer) == \A x \in 0 .. ((layer.size[1] \div 2) - 1), y \in 0 .. ((layer.size[2] \div 2) - 1) :
                            /\ layer.pixels[2 * x + 1][2 * y] = layer.pixels[2 * x][2 * y]
                            /\ layer.pixels[2 * x][2 * y + 1] = layer.pixels[2 * x][2 * y]
                            /\ layer.pixels[2 * x + 1][2 * y + 1] = layer.pixels[2 * x][2 * y]

\* C19: for a layer L with even dimensions > 1, the upscale of the downscale of
\* L has the pixel values of L if and only if every aligned 2x2 block of L is
\* uniform.
C19_DownUpIffUniform == [][(last.op = "Layer.downscale" /\ last'.op = "Layer.upscale" /\ last'.layer = last.i) =>
                               ((last'.ret.pixels = last.pre.pixels) <=> UniformBlocks(last.pre))]_vars

\* C19 witness: a layer of two columns and two rows with two colours was
\* downscaled and the result upscaled, to a layer of one colour
C19_Witness == /\ last.op = "Layer.upscale"
               /\ last.layer = 2
               /\ Len(heap.layers) = 3
               /\ heap.layers[1].size = <<2, 2>>
               /\ heap.layers[2].size = <<1, 1>>
               /\ View(heap, 1).pixels[0][0] = <<1, 2, 3>>
               /\ View(heap, 1).pixels[1][1] = <<2, 3, 5>>
               /\ View(heap, 1).pixels[0][1] = <<2, 3, 5>>
               /\ View(heap, 1).pixels[1][0] = <<2, 3, 5>>
               /\ last.ret.pixels[0][0] = <<2, 3, 4>>
               /\ last.ret.pixels[1][1] = <<2, 3, 4>>

----------------------------------------------------------------------------
(* Averaging: average_pixels is called on lists of pixels                  *)

\* the longest list average_pixels is called on
MaxPixels == 4

\* the rgb values of the pixels averaged
AverageValues == {None, <<1, 2, 3>>, <<2, 3, 5>>, <<255, 0, 128>>}

InitAverage == /\ canvas = Canvas_init(<<1, 1>>)
               /\ last = Call("Canvas", canvas, 0, 0, None)
               /\ file = NoFile
               /\ gui = NoGui
               /\ heap = NoHeap

\* average_pixels(pixels) for the Pixel objects of rgb pixels[1], pixels[2], ...; last.pre is the list
average_pixels_call == /\ \E n \in 0 .. MaxPixels : \E pixels \in [1 .. n -> AverageValues] :
                              last' = Call("average_pixels", pixels, 0, n, average_pixels(pixels))
                       /\ UNCHANGED <<canvas, file, heap, gui>>

NextAverage == average_pixels_call

SpecAverage == InitAverage /\ [][NextAverage]_vars

\* the positions of the pixels of a list that are not transparent
Opaque(ps) == {k \in 1 .. Len(ps) : ps[k] # None}

RECURSIVE Total(_, _, _)
\* the sum of a channel over the pixels at the positions ks
Total(ps, ch, ks) == IF ks = {} THEN 0 ELSE LET k == CHOOSE j \in ks : TRUE IN ps[k][ch] + Total(ps, ch, ks \ {k})

\* r is num / den rounded to the nearest integer, an exact half to the even neighbour
NearestHalfEven(r, num, den) == /\ 2 * (den * r - num) <= den
                                /\ 2 * (num - den * r) <= den
                                /\ (2 * (den * r - num) = den \/ 2 * (num - den * r) = den) => r % 2 = 0

\* C14: average_pixels returns a transparent pixel when every input is
\* transparent; otherwise each channel of the result is the mean of that channel
\* over the inputs that are not transparent, rounded to the nearest integer and
\* an exact half to the even neighbour; the average of (1, 2, 3) and (2, 3, 5)
\* is (2, 2, 4).
C14_AveragePixels == last.op = "average_pixels" =>
                         /\ Opaque(last.pre) = {} => last.ret = None
                         /\ Opaque(last.pre) # {} =>
                                /\ last.ret # None
                                /\ Len(last.ret) = 3
                                /\ \A ch \in 1 .. 3 : NearestHalfEven(last.ret[ch], Total(last.pre, ch, Opaque(last.pre)), Cardinality(Opaque(last.pre)))
                         /\ last.pre = <<<<1, 2, 3>>, <<2, 3, 5>>>> => last.ret = <<2, 2, 4>>

\* C14 witness: a transparent pixel, (1, 2, 3) and (2, 3, 5) were averaged: the
\* halves 1.5 and 2.5 both went to 2
C14_Witness == /\ last.op = "average_pixels"
               /\ last.pre = <<None, <<1, 2, 3>>, <<2, 3, 5>>>>
               /\ last.ret = <<2, 2, 4>>

----------------------------------------------------------------------------
(* Scaling a canvas: canvases with any pixels are upscaled and downscaled  *)

\* largest number of layers of a canvas that is scaled
MaxScaleLayers == 2

\* the sizes of the canvases that are scaled
ScaleSizes == {<<1, 2>>, <<2, 2>>}

\* the canvases scaled: what blank_canvas, Pixel.set, visible and set_active_layer_index make
InitScale == /\ \E sz \in ScaleSizes, n \in 0 .. MaxScaleLayers :
                    \E visible \in [1 .. n -> BOOLEAN], pixels \in [1 .. n -> [0 .. (sz[1] - 1) -> [0 .. (sz[2] - 1) -> PixelValues]]], a \in 0 .. Max(0, n - 1) :
                        canvas = [blank_canvas(sz[1], sz[2], n) EXCEPT !.active_layer_index = IF n = 0 THEN -1 ELSE a,
                                                                      !.layers = [k \in 1 .. n |-> [@[k] EXCEPT !.visible = visible[k], !.pixels = pixels[k]]]]
             /\ last = Call("blank_canvas", canvas, 0, 0, None)
             /\ file = NoFile
             /\ gui = NoGui
             /\ heap = NoHeap

NextScale == \/ upscale
             \/ downscale

SpecScale == InitScale /\ [][NextScale]_vars

\* C17: Canvas.upscale doubles and Canvas.downscale halves both dimensions of
\* the canvas size; the number of layers, their order, each layer's name and
\* visibility and active_layer_index are unchanged, and the layer at every index
\* is a new layer, the upscale or the downscale of the layer that was at that index.
C17_CanvasScaleFrame == /\ last.op = "upscale" =>
                               /\ canvas.size = <<2 * last.pre.size[1], 2 * last.pre.size[2]>>
                               /\ Len(canvas.layers) = Len(PreLayers)
                               /\ canvas.active_layer_index = PreActive
                               /\ \A k \in 1 .. Len(PreLayers) :
                                      /\ canvas.layers[k].name = PreLayers[k].name
                                      /\ canvas.layers[k].visible = PreLayers[k].visible
                                      /\ canvas.layers[k].size = canvas.size
                                      /\ canvas.layers[k].id \notin Ids(PreLayers)
                                      /\ \A X \in 0 .. (canvas.size[1] - 1), Y \in 0 .. (canvas.size[2] - 1) :
                                             canvas.layers[k].pixels[X][Y] = PreLayers[k].pixels[X \div 2][Y \div 2]
                        /\ last.op = "downscale" =>
                               /\ last.pre.size = <<2 * canvas.size[1], 2 * canvas.size[2]>>
                               /\ Len(canvas.layers) = Len(PreLayers)
                               /\ canvas.active_layer_index = PreActive
                               /\ \A k \in 1 .. Len(PreLayers) :
                                      /\ canvas.layers[k].name = PreLayers[k].name
                                      /\ canvas.layers[k].visible = PreLayers[k].visible
                                      /\ canvas.layers[k].size = canvas.size
                                      /\ canvas.layers[k].id \notin Ids(PreLayers)
                                      /\ \A x \in 0 .. (canvas.size[1] - 1), y \in 0 .. (canvas.size[2] - 1) :
                                             canvas.layers[k].pixels[x][y] = average_pixels(<<PreLayers[k].pixels[2 * x][2 * y], PreLayers[k].pixels[2 * x + 1][2 * y], PreLayers[k].pixels[2 * x][2 * y + 1], PreLayers[k].pixels[2 * x + 1][2 * y + 1]>>)

\* C17 witness: a canvas of two layers, the second one active and hidden, the
\* first with a block that is not uniform and the second transparent, was downscaled
C17_Witness == /\ last.op = "downscale"
               /\ last.pre.size = <<2, 2>>
               /\ Len(PreLayers) = 2
               /\ PreActive = 1
               /\ PreLayers[1].visible
               /\ ~PreLayers[2].visible
               /\ PreLayers[1].pixels[0][0] = None
               /\ PreLayers[1].pixels[1][1] = <<0, 15, 255>>
               /\ PreLayers[2].pixels[1][1] = None
               /\ canvas.layers[1].pixels[0][0] = <<0, 15, 255>>
               /\ canvas.layers[2].pixels[0][0] = None
               /\ canvas.layers[1].name = "layer 1"
               /\ canvas.layers[2].name = "layer 2"
               /\ ~canvas.layers[2].visible

\* C18: Canvas.upscale followed by Canvas.downscale restores the canvas, whatever
\* its pixels: the same size and, at every index, a layer of the same
\* visibility, name and rgb at every coordinate.
C18_UpscaleDownscaleRestores == [][(last.op = "upscale" /\ last'.op = "downscale") =>
                                       /\ SameContent(canvas', last.pre)
                                       /\ \A k \in 1 .. Len(PreLayers) : canvas'.layers[k].name = PreLayers[k].name]_vars

\* C18 witness: a canvas of one column whose two layers have a coloured and a
\* transparent pixel each, the first layer hidden, was upscaled and downscaled
C18_Witness == /\ last.op = "downscale"
               /\ last.pre.size = <<2, 4>>
               /\ canvas.size = <<1, 2>>
               /\ Len(canvas.layers) = 2
               /\ ~canvas.layers[1].visible
               /\ canvas.layers[1].pixels[0][0] = <<0, 15, 255>>
               /\ canvas.layers[1].pixels[0][1] = None
               /\ canvas.layers[2].pixels[0][0] = None
               /\ canvas.layers[2].pixels[0][1] = <<0, 15, 255>>
               /\ PreLayers[1].pixels[1][1] = <<0, 15, 255>>
               /\ PreLayers[1].pixels[1][2] = None

\* C20: move_layer(L, 0) changes nothing: the layers, their order and the active
\* index after the call are those before it.
C20_MoveByZero == (last.op = "move_layer" /\ last.i = 0) =>
                      /\ canvas.layers = PreLayers
                      /\ canvas.active_layer_index = PreActive
                      /\ canvas.size = last.pre.size

\* C20 witness: the bottom-most layer of three was moved by 0 while the layer
\* above it was active
C20_Witness == /\ last.op = "move_layer"
               /\ last.i = 0
               /\ Len(PreLayers) = 3
               /\ PreIndex = 2
               /\ PreActive = 1
               /\ IndexNow(last.layer) = 2

----------------------------------------------------------------------------
(* canvas.py: Canvas.get_layers.  Lists and Layer objects are kept by      *)
(* reference: heap.lists holds the list objects (sequences of Layer        *)
(* references), heap.layers the Layer objects, and canvas.layers is the    *)
(* reference of the list _layers.  last.i is the client's variable that    *)
(* holds the list get_layers returned.                                     *)

\* largest number of layers of the canvas whose list is copied
MaxGetLayers == 2

\* largest number of pixels and visibility flags that differ from a new layer's
MaxWrites == 2

\* the number of pixels that are not transparent and of layers that are hidden
Written(h) == Cardinality({cell \in Cells(h, 1 .. Len(h.layers)) : h.layers[cell[1]].pixels[cell[2][1]][cell[2][2]] # None})
              + Cardinality({k \in 1 .. Len(h.layers) : ~h.layers[k].visible})

\* the canvas read through its references: self._layers[k] for each k
Deref(h, c) == [c EXCEPT !.layers = [k \in 1 .. Len(h.lists[c.layers]) |-> h.layers[h.lists[c.layers][k]]]]

\* get_layers that returns self._layers itself
Canvas_get_layers_Alias(h, c) == [heap |-> h, ret |-> c.layers]

\* get_layers: the slice self._layers[:] is a new list object that holds the same references
Canvas_get_layers(h, c) == [heap |-> [h EXCEPT !.lists = Append(@, h.lists[c.layers])], ret |-> Len(h.lists) + 1]

\* a canvas of 0 .. MaxGetLayers layers built by blank_canvas, any of them active;
\* the Layer objects were constructed in the order of the list or in the opposite order
InitGet == /\ \E sz \in Sizes, n \in 0 .. MaxGetLayers, upwards \in BOOLEAN, active \in {0, MaxGetLayers - 1} :
                  LET c == blank_canvas(sz[1], sz[2], n)
                  IN  /\ active < n \/ active = 0
                      /\ upwards \/ n > 1
                      /\ heap = [rgb |-> <<>>,
                                 layers |-> [k \in 1 .. n |-> c.layers[IF upwards THEN k ELSE n + 1 - k]],
                                 lists |-> <<[k \in 1 .. n |-> IF upwards THEN k ELSE n + 1 - k]>>]
                      /\ canvas = [c EXCEPT !.layers = 1, !.active_layer_index = IF n = 0 THEN -1 ELSE active]
           /\ last = Call("Canvas", Deref(heap, canvas), 0, 0, None)
           /\ file = NoFile
           /\ gui = NoGui

\* canvas_layers = canvas.get_layers(); the list that canvas_layers held before
\* is no longer referenced and its object is freed
get_layers == /\ last.op # "get_layers"
              /\ LET r == Canvas_get_layers([heap EXCEPT !.lists = <<@[canvas.layers]>>], canvas)
                 IN  /\ heap' = r.heap
                     /\ last' = Call("get_layers", Deref(heap, canvas), 0, r.ret, r.ret)
              /\ UNCHANGED <<canvas, file, gui>>

\* canvas_layers.append(Layer(size, None, 'Layer'))
list_append == /\ last.op # "Canvas"
               /\ Len(heap.layers) <= MaxGetLayers
               /\ heap' = [heap EXCEPT !.layers = Append(@, Layer_init(Len(heap.layers) + 1, canvas.size, None, "Layer")),
                                       !.lists[last.i] = Append(@, Len(heap.layers) + 1)]
               /\ last' = Call("list.append", Deref(heap, canvas), Len(heap.layers) + 1, last.i, None)
               /\ UNCHANGED <<canvas, file, gui>>

\* canvas_layers.remove(canvas_layers[k])
list_remove == /\ last.op # "Canvas"
               /\ \E k \in 0 .. (Len(heap.lists[last.i]) - 1) :
                      /\ heap' = [heap EXCEPT !.lists[last.i] = ListPop(@, k)]
                      /\ last' = Call("list.remove", Deref(heap, canvas), heap.lists[last.i][k + 1], last.i, None)
               /\ UNCHANGED <<canvas, file, gui>>

\* canvas_layers.reverse()
list_reverse == /\ last.op # "Canvas"
                /\ Len(heap.lists[last.i]) > 1
                /\ heap' = [heap EXCEPT !.lists[last.i] = [k \in 1 .. Len(@) |-> @[Len(@) + 1 - k]]]
                /\ last' = Call("list.reverse", Deref(heap, canvas), 0, last.i, None)
                /\ UNCHANGED <<canvas, file, gui>>

\* canvas_layers[k].get_pixel(loc).set(colour_hex_str)
returned_set == /\ last.op # "Canvas"
                /\ Written(heap) < MaxWrites
                /\ \E k \in 0 .. (Len(heap.lists[last.i]) - 1), loc \in Locs(canvas.size), colour_hex_str \in {<<"#", "0", "0", "0", "f", "1", "0">>} :
                       /\ heap' = [heap EXCEPT !.layers[heap.lists[last.i][k + 1]].pixels = SetRgb(@, loc, Pixel_set(colour_hex_str))]
                       /\ last' = [CallAt("set", Deref(heap, canvas), loc, Pixel_set(colour_hex_str)) EXCEPT !.layer = heap.lists[last.i][k + 1], !.i = last.i]
                /\ UNCHANGED <<canvas, file, gui>>

\* canvas_layers[k].visible = not canvas_layers[k].visible
returned_toggle == /\ last.op # "Canvas"
                   /\ Written(heap) < MaxWrites
                   /\ \E k \in 0 .. (Len(heap.lists[last.i]) - 1) :
                          /\ heap' = [heap EXCEPT !.layers[heap.lists[last.i][k + 1]].visible = ~@]
                          /\ last' = Call("visible", Deref(heap, canvas), heap.lists[last.i][k + 1], last.i, ~heap.layers[heap.lists[last.i][k + 1]].visible)
                   /\ UNCHANGED <<canvas, file, gui>>

NextGet == \/ get_layers
           \/ list_append
           \/ list_remove
           \/ list_reverse
           \/ returned_set
           \/ returned_toggle

SpecGet == InitGet /\ [][NextGet]_vars

\* the positions of the canvas's list that hold the Layer object ref
PositionsOf(ref) == {p \in 1 .. Len(heap.lists[canvas.layers]) : heap.lists[canvas.layers][p] = ref}

\* C21: get_layers returns a list object of its own that holds the canvas's Layer
\* objects in the canvas's order; appending to, removing from and reversing that
\* list leaves the canvas (its layers, their order, its active index and size) as
\* it was; setting a pixel or the visibility through an element of that list
\* changes, in the canvas, exactly that pixel or flag of that layer.
C21_GetLayers ==
    /\ last.op = "get_layers" =>
           /\ last.ret # canvas.layers
           /\ heap.lists[last.ret] = heap.lists[canvas.layers]
           /\ Deref(heap, canvas) = last.pre
    /\ last.op \in {"list.append", "list.remove", "list.reverse"} =>
           /\ last.i # canvas.layers
           /\ Deref(heap, canvas) = last.pre
    /\ last.op = "set" =>
           /\ canvas.active_layer_index = last.pre.active_layer_index
           /\ Len(Deref(heap, canvas).layers) = Len(last.pre.layers)
           /\ \A p \in 1 .. Len(last.pre.layers) :
                  Deref(heap, canvas).layers[p] = IF p \in PositionsOf(last.layer)
                                                  THEN [last.pre.layers[p] EXCEPT !.pixels = SetRgb(@, last.loc, last.ret)]
                                                  ELSE last.pre.layers[p]
    /\ last.op = "visible" =>
           /\ canvas.active_layer_index = last.pre.active_layer_index
           /\ Len(Deref(heap, canvas).layers) = Len(last.pre.layers)
           /\ \A p \in 1 .. Len(last.pre.layers) :
                  Deref(heap, canvas).layers[p] = IF p \in PositionsOf(last.layer)
                                                  THEN [last.pre.layers[p] EXCEPT !.visible = last.ret]
                                                  ELSE last.pre.layers[p]

\* C21 witness: the returned list was changed (it no longer equals the canvas's
\* list of two layers) and a colour set through one of its elements is read back
\* through the canvas
C21_Witness == /\ last.op = "set"
               /\ last.ret = <<0, 15, 16>>
               /\ Len(heap.lists[canvas.layers]) = 2
               /\ heap.lists[last.i] # heap.lists[canvas.layers]
               /\ PositionsOf(last.layer) = {2}
               /\ get_pixel(last.pre.layers[2], last.loc) = None
               /\ get_pixel(Deref(heap, canvas).layers[2], last.loc) = <<0, 15, 16>>

----------------------------------------------------------------------------
(* pixel.py and layer.py: one Pixel object, heap.rgb[1] being its rgb      *)
(* attribute, and the calls of convert_to_hex_rgb, Pixel, Pixel.set and    *)
(* Layer a client makes.                                                   *)

\* the channel values of the colours converted: the ends of the range, and
\* values of one and of two hex digits, with and without letters
Channels == {0, 10, 16, 171, 255}

\* the arguments Pixel is constructed with: None, colours, and tuples that
\* is_valid_rgb_colour rejects (a channel above 255, a channel below 0, and
\* tuples of 2 and of 4 channels); every channel is an int
PixelArgs == {None, <<0, 125, 125>>, <<255, 255, 255>>, <<256, 0, 0>>, <<-1, 255, 255>>, <<1, 2>>, <<1, 2, 3, 4>>}

\* isinstance(c, int)
IsInt(c) == c \in Int

\* is_valid_rgb_colour(rgb) for a tuple rgb
is_valid_rgb_colour(rgb) == IF Len(rgb) # 3 THEN FALSE
                            ELSE \A k \in 1 .. 3 : IsInt(rgb[k]) /\ ~(rgb[k] < 0) /\ ~(rgb[k] > 255)

\* str.upper() on a string of '#', digits and lower-case letters a .. f
Upper(str) == [k \in 1 .. Len(str) |-> IF DigitValue(str[k], 16) >= 0 THEN UpperHexDigits[DigitValue(str[k], 16) + 1] ELSE str[k]]

\* Pixel(rgb): __init__ assigns self.rgb and returns
Pixel_init(rgb) == Ok(rgb)

\* pixel = Pixel(None)
InitPixel == /\ heap = [rgb |-> <<Pixel_init(None).val>>, layers |-> <<>>]
             /\ canvas = Canvas_init(<<1, 1>>)
             /\ last = Call("Pixel", None, 0, 0, Pixel_init(None))
             /\ file = NoFile
             /\ gui = NoGui

\* s = convert_to_hex_rgb(rgb) for a valid colour rgb
convert_call == /\ \E r \in Channels, g \in Channels, b \in Channels :
                       last' = Call("convert_to_hex_rgb", <<r, g, b>>, 0, 0, convert_to_hex_rgb(<<r, g, b>>))
                /\ UNCHANGED <<canvas, file, heap, gui>>

\* s = s.upper() on the string convert_to_hex_rgb returned
upper_call == /\ last.op = "convert_to_hex_rgb"
              /\ last' = Call("upper", last.pre, 0, 0, Upper(last.ret))
              /\ UNCHANGED <<canvas, file, heap, gui>>

\* pixel.set(s) for the string s, and pixel.set(None)
Pixel_set_call == /\ \/ /\ last.op \in {"convert_to_hex_rgb", "upper"}
                        /\ heap' = [heap EXCEPT !.rgb[1] = Pixel_set(last.ret)]
                        /\ last' = Call("Pixel.set", last.pre, 0, 0, last.ret)
                     \/ /\ heap' = [heap EXCEPT !.rgb[1] = Pixel_set(None)]
                        /\ last' = Call("Pixel.set", None, 0, 0, None)
                  /\ UNCHANGED <<canvas, file, gui>>

\* pixel = Pixel(rgb)
Pixel_call == /\ \E rgb \in PixelArgs :
                     /\ heap' = [heap EXCEPT !.rgb[1] = IF Pixel_init(rgb).ok THEN Pixel_init(rgb).val ELSE @]
                     /\ last' = Call("Pixel", rgb, 0, 0, Pixel_init(rgb))
              /\ UNCHANGED <<canvas, file, gui>>

\* layer = Layer(size, None, name), for sizes and names with and without an
\* empty name, a width or a height of 0, and a negative width; last.pre is
\* the pair of size and name
Layer_call == /\ \E sz \in {<<1, 2>>, <<2, 1>>, <<0, 2>>, <<2, 0>>, <<-1, 1>>}, name \in {"Layer", ""} :
                     last' = Call("Layer", <<sz, name>>, 0, 0, Ok(Layer_init(1, sz, None, name)))
              /\ UNCHANGED <<canvas, file, heap, gui>>

NextPixel == \/ convert_call
             \/ upper_call
             \/ Pixel_set_call
             \/ Pixel_call
             \/ Layer_call

SpecPixel == InitPixel /\ [][NextPixel]_vars

\* C22: for a valid colour (r, g, b), convert_to_hex_rgb returns 7 characters:
\* '#', then for each channel the lower-case hex digit of its quotient by 16 and
\* the one of its remainder; Pixel.set of that string, as returned or
\* upper-cased, stores (r, g, b), and Pixel.set(None) stores None.
C22_HexRoundTrip ==
    /\ last.op = "convert_to_hex_rgb" =>
           /\ Len(last.ret) = 7
           /\ last.ret[1] = "#"
           /\ \A k \in 1 .. 3 : /\ last.ret[2 * k] = HexDigits[(last.pre[k] \div 16) + 1]
                                /\ last.ret[2 * k + 1] = HexDigits[(last.pre[k] % 16) + 1]
    /\ last.op = "upper" =>
           \A k \in 1 .. 3 : /\ last.ret[2 * k] = UpperHexDigits[(last.pre[k] \div 16) + 1]
                             /\ last.ret[2 * k + 1] = UpperHexDigits[(last.pre[k] % 16) + 1]
    /\ last.op = "Pixel.set" => heap.rgb[1] = last.pre

\* C22 witness: (171, 10, 255) was converted, the string upper-cased to
\* '#AB0AFF' and passed to Pixel.set, which stored (171, 10, 255)
C22_Witness == /\ last.op = "Pixel.set"
               /\ last.ret = <<"#", "A", "B", "0", "A", "F", "F">>
               /\ heap.rgb[1] = <<171, 10, 255>>

\* C24: Pixel(rgb) with a tuple that is_valid_rgb_colour rejects (2 or 4
\* channels, a channel below 0 or above 255) raises
\* and the Pixel object does not hold that tuple.
C24_InvalidRgbRejected == (last.op = "Pixel" /\ last.pre # None /\ ~is_valid_rgb_colour(last.pre)) =>
                              /\ ~last.ret.ok
                              /\ heap.rgb[1] # last.pre

----------------------------------------------------------------------------
(* pixel.py and layer.py: the colours a layer's pixels take.  A layer is   *)
(* constructed, and Pixel.set, Layer.upscale, Layer.downscale and          *)
(* average_pixels are called in any order on the newest layer.             *)

\* Layer(sz, bg, 'Layer') for a background colour that is None or a valid colour
InitValid == /\ \E sz \in {<<1, 1>>, <<2, 2>>}, bg \in {None, <<255, 128, 7>>} : heap = Heap_Layer_init(NoHeap, sz, bg, "Layer")
             /\ canvas = Canvas_init(heap.layers[1].size)
             /\ last = Call("Layer", View(heap, 1), 1, 1, View(heap, 1))
             /\ file = NoFile
             /\ gui = NoGui

\* layer.get_pixel((0, y)).set(colour_hex_str) on the newest layer, of at most MaxPixels pixels
Heap_set_call == /\ heap.layers[Len(heap.layers)].size[1] * heap.layers[Len(heap.layers)].size[2] <= MaxPixels
                 /\ \E loc \in Locs(<<1, heap.layers[Len(heap.layers)].size[2]>>), colour_hex_str \in BrushColours \cup {None} :
                        heap' = [heap EXCEPT !.rgb = Heap_set_rgb(heap.rgb, heap.layers[Len(heap.layers)], loc, Pixel_set(colour_hex_str))]
                 /\ last' = Call("set", None, Len(heap.layers), 0, None)
                 /\ UNCHANGED <<canvas, file, gui>>

\* average_pixels on the first n Pixel objects of the newest layer's first column and row
Heap_average_call == /\ \E n \in 0 .. MaxPixels :
                            /\ n <= heap.layers[Len(heap.layers)].size[1] * heap.layers[Len(heap.layers)].size[2]
                            /\ last' = Call("average_pixels", None, Len(heap.layers), n,
                                            average_pixels([k \in 1 .. n |-> heap.rgb[heap.layers[Len(heap.layers)].pixels[0][0] + k - 1]]))
                     /\ UNCHANGED <<canvas, file, heap, gui>>

NextValid == \/ Heap_set_call
             \/ Layer_upscale_call
             \/ Layer_downscale_call
             \/ Heap_average_call

SpecValid == InitValid /\ [][NextValid]_vars

\* a rgb attribute that is None or three ints of 0 .. 255
ValidRgb(rgb) == rgb = None \/ (Len(rgb) = 3 /\ \A k \in 1 .. 3 : rgb[k] \in 0 .. 255)

\* C23: from a layer constructed with a background that is None or a valid colour,
\* after any sequence of Pixel.set with well-formed strings or None, Layer.upscale,
\* Layer.downscale and average_pixels, the rgb of every Pixel object, and of the
\* pixel average_pixels returned, is None or three ints of 0 .. 255.
C23_PixelsValid == /\ \A a \in 1 .. Len(heap.rgb) : ValidRgb(heap.rgb[a])
                   /\ last.op = "average_pixels" => ValidRgb(last.ret)

\* C23 witness: a 2x2 layer of background (255, 128, 7) whose first column was set
\* to None and to '#000f10' was downscaled, and the new pixel is the average
\* (170, 90, 10) of the three pixels that are not transparent
C23_Witness == /\ last.op = "Layer.downscale"
               /\ last.pre.pixels[0][0] = None
               /\ last.pre.pixels[0][1] = <<0, 15, 16>>
               /\ last.pre.pixels[1][0] = <<255, 128, 7>>
               /\ last.pre.pixels[1][1] = <<255, 128, 7>>
               /\ last.ret.pixels[0][0] = <<170, 90, 10>>

\* C25: Layer(size, bg, name) with an empty name, or with a width or a height
\* below 1, raises: no Layer object is returned.
C25_InvalidLayerRejected == (last.op = "Layer" /\ (last.pre[2] = "" \/ last.pre[1][1] < 1 \/ last.pre[1][2] < 1)) => ~last.ret.ok

----------------------------------------------------------------------------
(* canvas.py and layer.py: load_canvas on a file that does not follow the  *)
(* .canvas format.  A canvas is saved, one line of the file is then        *)
(* damaged, and the file is loaded.                                        *)

\* the line without its newline
Chomp(line) == RStrip(line, {"\n"})

\* the indices of the lines of pixel rows in the file of a canvas of height h
RowLines(f, h) == {k \in 2 .. Len(f) : (k - 2) % (h + 1) # 0}

\* a line whose fields are separated by sep, changed: the last field missing, a
\* field more, or the first field replaced by '?'
LineEdits(line, sep) == LET fields == Split(Chomp(line), sep)
                        IN  {Join(SubSeq(fields, 1, Len(fields) - 1), <<sep>>) \o <<"\n">>,
                             Join(Append(fields, fields[Len(fields)]), <<sep>>) \o <<"\n">>,
                             Join(<<<<"?">>>> \o Tail(fields), <<sep>>) \o <<"\n">>}

\* the files one change away from the file f of a canvas of height h: the last row
\* missing, the last row twice, and a changed header (fields separated by ',') or
\* row (tokens separated by '|')
Edits(f, h) == {SubSeq(f, 1, Len(f) - 1) : k \in {Len(f)} \cap RowLines(f, h)}
               \cup {Append(f, f[Len(f)]) : k \in {Len(f)} \cap RowLines(f, h)}
               \cup UNION {{[f EXCEPT ![k] = line] : line \in LineEdits(f[k], IF k = 1 THEN "," ELSE "|")} : k \in {1} \cup RowLines(f, h)}

\* the file that save wrote is changed
edit_file == /\ last.op = "save"
             /\ \E f \in Edits(file, canvas.size[2]) : file' = f
             /\ last' = Call("edit", canvas, 0, 0, None)
             /\ UNCHANGED <<canvas, heap, gui>>

NextBad == \/ save
           \/ edit_file
           \/ load_canvas

SpecBad == InitFile /\ [][NextBad]_vars

\* a part of a row is None or (r, g, b) with three decimal integers
TokenValid(pixel) == \/ pixel = NoneStr
                     \/ /\ Len(pixel) >= 2
                        /\ Head(pixel) = "("
                        /\ pixel[Len(pixel)] = ")"
                        /\ LET parts == Split(SubSeq(pixel, 2, Len(pixel) - 1), ",")
                           IN  Len(parts) = 3 /\ \A k \in 1 .. 3 : ParseInt(parts[k], 10).ok

\* the file follows the format: a header of three integers w, h and n, then n
\* times a line True or False and h lines of w tokens separated by '|'
StructurallyValid(f) == /\ ReadHeader(f).ok
                        /\ LET w == ReadHeader(f).val[1]
                               h == ReadHeader(f).val[2]
                               n == ReadHeader(f).val[3]
                           IN  /\ w >= 1 /\ h >= 1 /\ n >= 0
                               /\ Len(f) = 1 + n * (h + 1)
                               /\ \A k \in 2 .. Len(f) :
                                      IF k \in RowLines(f, h)
                                      THEN LET tokens == Split(Chomp(f[k]), "|")
                                           IN  Len(tokens) = w /\ \A t \in 1 .. w : TokenValid(tokens[t])
                                      ELSE Chomp(f[k]) \in {TrueStr, FalseStr}

\* C26: load_canvas of a file that does not follow the format (a malformed
\* header, a layer with fewer or more rows than the height, a row with fewer or
\* more tokens than the width, a token that cannot be parsed) raises; it returns
\* no canvas.
C26_InvalidFileRejected == (last.op = "load_canvas" /\ ~StructurallyValid(file)) => ~last.ret.ok

----------------------------------------------------------------------------
(* The text Canvas.save writes *)

\* str is the decimal numeral of n >= 0: digits only, no leading zero
IsDecimal(str, n) == /\ str # <<>>
                     /\ \A k \in 1 .. Len(str) : \E d \in 1 .. 10 : DecDigits[d] = str[k]
                     /\ Len(str) = 1 \/ Head(str) # "0"
                     /\ DigitsValue(str, 10, 0) = n

\* the part of a row is the token of rgb: None, or (r, g, b) in decimal
IsToken(pixel, rgb) == IF rgb = None THEN pixel = NoneStr
                       ELSE /\ TokenValid(pixel)
                            /\ \A k \in 1 .. 3 : ParseInt(Split(SubSeq(pixel, 2, Len(pixel) - 1), ",")[k], 10).val = rgb[k]

\* the file is the one of the canvas: a first line of the decimal width, height
\* and layer count, each comma followed by lead; then for each layer from the top
\* its visibility line and height rows, each of width tokens joined by '|'
SavedAs(lead) == LET fields == Split(Chomp(file[1]), ",")
                     w == canvas.size[1]
                     h == canvas.size[2]
                     n == Len(canvas.layers)
                 IN  /\ file[1][Len(file[1])] = "\n"
                     /\ Len(fields) = 3
                     /\ IsDecimal(fields[1], w)
                     /\ SubSeq(fields[2], 1, Len(lead)) = lead
                     /\ IsDecimal(SubSeq(fields[2], Len(lead) + 1, Len(fields[2])), h)
                     /\ SubSeq(fields[3], 1, Len(lead)) = lead
                     /\ IsDecimal(SubSeq(fields[3], Len(lead) + 1, Len(fields[3])), n)
                     /\ Len(file) = 1 + n * (h + 1)
                     /\ \A k \in 1 .. n :
                            /\ file[2 + (k - 1) * (h + 1)] = (IF canvas.layers[k].visible THEN TrueStr ELSE FalseStr) \o <<"\n">>
                            /\ \A y \in 0 .. (h - 1) :
                                   LET line == file[3 + (k - 1) * (h + 1) + y]
                                       tokens == Split(Chomp(line), "|")
                                   IN  /\ line[Len(line)] = "\n"
                                       /\ Len(tokens) = w
                                       /\ \A x \in 0 .. (w - 1) : IsToken(tokens[x + 1], canvas.layers[k].pixels[x][y])

\* C27 as stated: the first line save writes is the decimal width, height and
\* layer count separated by single commas and nothing else; then per layer from
\* the top a line True or False and height rows of width tokens joined by '|'.
C27_HeaderWithoutSpaces == last.op = "save" => SavedAs(<<>>)

\* C27: the first line save writes is the decimal width, height and layer count,
\* separated by a comma followed by one space, and nothing else; then per layer
\* from the top a line True or False and height rows of width tokens joined by '|'.
C27_SavedFormat == last.op = "save" => SavedAs(<<" ">>)

\* C27 witness: a 2x1 canvas of two layers, the top one hidden with a coloured
\* and a transparent pixel, was saved and the first line is '2, 1, 2'
C27_Witness == /\ last.op = "save"
               /\ file[1] = <<"2", ",", " ", "1", ",", " ", "2", "\n">>
               /\ ~canvas.layers[1].visible
               /\ canvas.layers[1].pixels[0][0] = <<0, 15, 255>>
               /\ canvas.layers[1].pixels[1][0] = None
               /\ file[3] = <<"(", "0", ",", " ", "1", "5", ",", " ", "2", "5", "5", ")", "|">> \o NoneStr \o <<"\n">>

----------------------------------------------------------------------------
(* drawing_gui.py: class DrawingGUI.  The live canvas (canvas) and the     *)
(* canvases on the undo and redo stacks are Canvas objects whose lists     *)
(* hold references [id |-> k] to the Layer objects heap.layers[k], whose   *)
(* grids hold references to the Pixel objects of heap.rgb.  gui holds the  *)
(* attributes _undo_stack, _redo_stack, canvas_size,                       *)
(* last_updated_position, _total_layers and _current_tool, the number of   *)
(* rows of layer controllers that reset_layer_controllers has built        *)
(* (controllers), and three sequences that record history: captured[k] is  *)
(* the content of the live canvas when the entry k of the undo stack was   *)
(* appended, pushed[k] the content that the _push_undo of the stroke or    *)
(* rescale of that entry captured, unpushed[k] the same for the redo       *)
(* stack; undone records that an _undo has replaced the live canvas and    *)
(* that _push_undo has not run since.  Objects that nothing refers to any  *)
(* more are freed after every handler.                                     *)

\* a reference to the Layer object k
Ref(k) == [id |-> k]

\* copy.deepcopy of the Layer object self: a new Layer object with new Pixel objects
Heap_copy_layer(h, self) == LET sz == h.layers[self].size
                            IN  [rgb |-> h.rgb \o [k \in 1 .. (sz[1] * sz[2]) |-> h.rgb[h.layers[self].pixels[(k - 1) \div sz[2]][(k - 1) % sz[2]]]],
                                 layers |-> Append(h.layers, [h.layers[self] EXCEPT !.pixels = [col \in 0 .. (sz[1] - 1) |-> [row \in 0 .. (sz[2] - 1) |-> Len(h.rgb) + col * sz[2] + row + 1]]])]

RECURSIVE CopyLayers(_, _)
\* copy.deepcopy of the list _layers, layer by layer
CopyLayers(h, refs) == IF refs = <<>> THEN h ELSE CopyLayers(Heap_copy_layer(h, Head(refs).id), Tail(refs))

\* a copy that shares the Layer objects: copy.copy
Heap_deepcopy_Shallow(h, c) == [heap |-> h, canvas |-> c]

\* copy.deepcopy(c) for the Canvas object c: the heap with the new objects, and the new canvas
Heap_deepcopy(h, c) == [heap |-> CopyLayers(h, c.layers), canvas |-> [c EXCEPT !.layers = [k \in 1 .. Len(c.layers) |-> Ref(Len(h.layers) + k)]]]

RECURSIVE ScaleLayers(_, _, _)
\* the loop of Canvas.upscale (up) and of Canvas.downscale over self._layers
ScaleLayers(h, refs, up) == IF refs = <<>> THEN h ELSE ScaleLayers(IF up THEN Heap_upscale(h, Head(refs).id) ELSE Heap_downscale(h, Head(refs).id), Tail(refs), up)

\* Canvas.upscale() on the Canvas object c
Heap_Canvas_upscale(h, c) == [heap |-> ScaleLayers(h, c.layers, TRUE), canvas |-> [c EXCEPT !.size = <<c.size[1] * 2, c.size[2] * 2>>, !.layers = [k \in 1 .. Len(c.layers) |-> Ref(Len(h.layers) + k)]]]

\* Canvas.downscale() on the Canvas object c
Heap_Canvas_downscale(h, c) == [heap |-> ScaleLayers(h, c.layers, FALSE), canvas |-> [c EXCEPT !.size = <<c.size[1] \div 2, c.size[2] \div 2>>, !.layers = [k \in 1 .. Len(c.layers) |-> Ref(Len(h.layers) + k)]]]

\* self._pixels[loc[0]][loc[1]] exists in the Layer object ref (no IndexError)
InGrid(h, ref, loc) == loc[1] < h.layers[ref].size[1] /\ loc[2] < h.layers[ref].size[2]

\* Canvas.get_hex_rgb(loc) raises IndexError: a visible layer without a pixel at loc
\* is reached before a visible layer with a colour at loc
HexRaises(h, c, loc) == \E k \in 1 .. Len(c.layers) :
                            /\ h.layers[c.layers[k].id].visible
                            /\ ~InGrid(h, c.layers[k].id, loc)
                            /\ \A j \in 1 .. (k - 1) : h.layers[c.layers[j].id].visible =>
                                   (InGrid(h, c.layers[j].id, loc) /\ h.rgb[h.layers[c.layers[j].id].pixels[loc[1]][loc[2]]] = None)

\* _update_view_canvas and _update_edit_canvas raise: draw_square calls get_hex_rgb((i, j)) for i, j in range(n)
UpdateRaises(h, c, n) == \E i \in 0 .. (n - 1), j \in 0 .. (n - 1) : HexRaises(h, c, <<i, j>>)

RECURSIVE interpolate_loop(_, _, _, _, _, _, _, _, _)
\* the while loop of interpolate
interpolate_loop(x1, y1, x2, y2, dx, dy, sx, sy, err) ==
    IF x1 = x2 /\ y1 = y2 THEN <<<<x1, y1>>>>
    ELSE LET e2 == 2 * err
             err1 == IF e2 > 0 - dy THEN err - dy ELSE err
             nx == IF e2 > 0 - dy THEN x1 + sx ELSE x1
             err2 == IF e2 < dx THEN err1 + dx ELSE err1
             ny == IF e2 < dx THEN y1 + sy ELSE y1
         IN  <<<<x1, y1>>>> \o interpolate_loop(nx, ny, x2, y2, dx, dy, sx, sy, err2)

\* interpolate(start, end)
interpolate(start, end) == IF start[1] = end[1] /\ start[2] = end[2] THEN <<start, end>>
                           ELSE LET dx == IF end[1] >= start[1] THEN end[1] - start[1] ELSE start[1] - end[1]
                                    dy == IF end[2] >= start[2] THEN end[2] - start[2] ELSE start[2] - end[2]
                                IN  interpolate_loop(start[1], start[2], end[1], end[2], dx, dy, IF start[1] < end[1] THEN 1 ELSE -1, IF start[2] < end[2] THEN 1 ELSE -1, dx - dy)

RECURSIVE DrawLoop(_, _, _, _)
\* the loop of _on_drag over positions_to_draw: get_active_layer().get_pixel(pos).set(...)
\* and get_hex_rgb(pos); raised when one of them raised IndexError, which ends the loop
DrawLoop(h, c, positions, colour_hex_str) ==
    IF positions = <<>> THEN [heap |-> h, raised |-> FALSE]
    ELSE LET n == Len(c.layers)
             index == IF c.active_layer_index < 0 THEN n + c.active_layer_index ELSE c.active_layer_index
         IN  IF index < 0 \/ index >= n THEN [heap |-> h, raised |-> TRUE]
             ELSE IF ~InGrid(h, c.layers[index + 1].id, Head(positions)) THEN [heap |-> h, raised |-> TRUE]
             ELSE The({IF HexRaises(h1, c, Head(positions)) THEN [heap |-> h1, raised |-> TRUE]
                       ELSE DrawLoop(h1, c, Tail(positions), colour_hex_str)
                       : h1 \in {[h EXCEPT !.rgb = Heap_set_rgb(h.rgb, h.layers[c.layers[index + 1].id], Head(positions), Pixel_set(colour_hex_str))]}})

RECURSIVE Dedup(_)
\* the elements of a sequence in the order of their first occurrence
Dedup(seq) == IF seq = <<>> THEN <<>>
              ELSE The({IF \E k \in 1 .. Len(d) : d[k] = seq[Len(seq)] THEN d ELSE Append(d, seq[Len(seq)]) : d \in {Dedup(SubSeq(seq, 1, Len(seq) - 1))}})

\* the position of x in a sequence without repetition
Position(seq, x) == CHOOSE k \in 1 .. Len(seq) : seq[k] = x

RECURSIVE LayerRefs(_)
\* the Layer objects the canvases refer to
LayerRefs(roots) == IF roots = <<>> THEN <<>> ELSE IdSeq(Head(roots).layers) \o LayerRefs(Tail(roots))

RECURSIVE PixelRefs(_, _)
\* the Pixel objects the Layer objects refs refer to, column by column
PixelRefs(h, refs) == IF refs = <<>> THEN <<>>
                      ELSE [k \in 1 .. (h.layers[Head(refs)].size[1] * h.layers[Head(refs)].size[2]) |->
                                h.layers[Head(refs)].pixels[(k - 1) \div h.layers[Head(refs)].size[2]][(k - 1) % h.layers[Head(refs)].size[2]]]
                           \o PixelRefs(h, Tail(refs))

\* the heap without the objects that no canvas of roots refers to, the objects
\* numbered in the order the canvases reach them, and the canvases in that numbering
Collect(h, roots) == The({The({[heap |-> [rgb |-> [a \in 1 .. Len(po) |-> h.rgb[po[a]]],
                                          layers |-> [k \in 1 .. Len(lo) |-> [h.layers[lo[k]] EXCEPT !.pixels = [col \in DOMAIN h.layers[lo[k]].pixels |-> [row \in DOMAIN h.layers[lo[k]].pixels[col] |-> Position(po, h.layers[lo[k]].pixels[col][row])]]]]],
                                roots |-> [r \in 1 .. Len(roots) |-> [roots[r] EXCEPT !.layers = [k \in 1 .. Len(roots[r].layers) |-> Ref(Position(lo, roots[r].layers[k].id))]]]]
                               : po \in {Dedup(PixelRefs(h, lo))}}) : lo \in {Dedup(LayerRefs(roots))}})

\* what a client reads of the Canvas object c: its size, its active index and, from
\* the top, its layers' names, visibility, sizes and colours
Content(h, c) == [size |-> c.size, active_layer_index |-> c.active_layer_index,
                  layers |-> [k \in 1 .. Len(c.layers) |-> [View(h, c.layers[k].id) EXCEPT !.id = 0]]]

\* the contents of the canvases of a stack
Contents(h, stack) == [k \in 1 .. Len(stack) |-> Content(h, stack[k])]

\* the names f'Layer {self._total_layers + 1}' of DrawingGUI.add_layer
GuiLayerNames == <<"Layer 1", "Layer 2", "Layer 3", "Layer 4", "Layer 5", "Layer 6", "Layer 7", "Layer 8", "Layer 9">>

\* largest number of Pixel objects of the live canvas after _refine
MaxGuiPixels == 5

\* largest number of layers of a canvas that add_layer has added to
MaxGuiLayers == 2

\* largest canvas_size
MaxGuiSize == 2

\* longest session: the number of events handled
MaxEvents == 5

\* the front end's objects before a handler runs
Now == [heap |-> heap, canvas |-> canvas, gui |-> gui]

\* _push_undo that keeps the redo stack
DrawingGUI_push_undo_KeepRedo(st) == The({[st EXCEPT !.heap = d.heap, !.gui.undo_stack = Append(@, d.canvas),
                                                       !.gui.pushed = Append(@, Content(st.heap, st.canvas)),
                                                       !.gui.captured = Append(@, Content(st.heap, st.canvas)), !.gui.undone = FALSE]
                                          : d \in {Heap_deepcopy(st.heap, st.canvas)}})

\* DrawingGUI._push_undo()
DrawingGUI_push_undo(st) == The({[st EXCEPT !.heap = d.heap, !.gui.undo_stack = Append(@, d.canvas), !.gui.redo_stack = <<>>,
                                              !.gui.pushed = Append(@, Content(st.heap, st.canvas)), !.gui.unpushed = <<>>,
                                              !.gui.captured = Append(@, Content(st.heap, st.canvas)), !.gui.undone = FALSE]
                                 : d \in {Heap_deepcopy(st.heap, st.canvas)}})

\* DrawingGUI._on_drag(event) for an event over the pixel pos (None: outside the
\* viewport); raised when the handler ended with an IndexError
DrawingGUI_on_drag(st, pos) ==
    IF pos = None THEN [st |-> [st EXCEPT !.gui.last_updated_position = None], raised |-> FALSE]
    ELSE The({The({[st |-> [st1 EXCEPT !.heap = d.heap, !.gui.last_updated_position = pos],
                    raised |-> d.raised \/ UpdateRaises(d.heap, st1.canvas, st1.gui.canvas_size)]
                   : d \in {DrawLoop(st1.heap, st1.canvas,
                                     IF st.gui.last_updated_position # None /\ st.gui.last_updated_position # pos
                                     THEN interpolate(st.gui.last_updated_position, pos) ELSE <<pos>>,
                                     IF st1.gui.current_tool = "Eraser" THEN None ELSE st1.gui.colour)}})
              : st1 \in {IF st.gui.last_updated_position = None THEN DrawingGUI_push_undo(st) ELSE st}})

\* the number of Pixel objects of the Canvas object c
PixelCount(h, c) == Len(PixelRefs(h, IdSeq(c.layers)))

\* the state after a handler: the objects st without those nothing refers to, and
\* the handler's name (with the contents before it, for _undo and _redo).  A
\* session is followed for MaxEvents events and as long as its events change
\* something (gui.idle: the last event left every object as it was)
Become(st, op, pre) == /\ gui.events < MaxEvents
                       /\ ~gui.idle
                       /\ \E s \in {st} : \E r \in {Collect(s.heap, <<s.canvas>> \o s.gui.undo_stack \o s.gui.redo_stack)} :
                              /\ heap' = r.heap
                              /\ canvas' = r.roots[1]
                              /\ \E g \in {[s.gui EXCEPT !.undo_stack = SubSeq(r.roots, 2, 1 + Len(s.gui.undo_stack)),
                                                          !.redo_stack = SubSeq(r.roots, 2 + Len(s.gui.undo_stack), Len(r.roots))]} :
                                     gui' = [g EXCEPT !.events = @ + 1, !.idle = (r.heap = heap /\ r.roots[1] = canvas /\ g = gui)]
                              /\ last' = Call(op, pre, 0, 0, None)
                              /\ UNCHANGED file

RECURSIVE BlankLayers(_, _, _, _)
\* the loop of load_canvas over a file of n layers whose pixels are all bg: Layer(size), read_layer
BlankLayers(h, sz, bg, n) == IF n = 0 THEN h ELSE BlankLayers(Heap_Layer_init(h, sz, bg, "Layer"), sz, bg, n - 1)

\* the pixels the mouse events are over: the two ends of the diagonal of the
\* grid of canvas_size squares, and None for an event outside the viewport
EventPositions(canvas_size) == {<<0, 0>>, <<canvas_size - 1, canvas_size - 1>>, None}

\* DrawingGUI(file_name) for a .canvas file of one pixel: load_canvas,
\* set_active_layer_index(0), empty stacks.  The file holds two transparent
\* layers, and the Brush is kept, or one coloured layer, and the Eraser is selected
InitGui == \E sz \in {<<1, 1>>}, tool \in {"Brush", "Eraser"} : \E n \in {IF tool = "Brush" THEN 2 ELSE 1} :
               /\ heap = BlankLayers(NoHeap, sz, IF tool = "Brush" THEN None ELSE <<0, 125, 125>>, n)
               /\ canvas = [size |-> sz, active_layer_index |-> 0, layers |-> [k \in 1 .. n |-> Ref(k)]]
               /\ gui = [undo_stack |-> <<>>, redo_stack |-> <<>>, canvas_size |-> sz[1], last_updated_position |-> None,
                         total_layers |-> n, controllers |-> n, colour |-> <<"#", "0", "0", "0", "0", "0", "0">>, current_tool |-> tool,
                         pushed |-> <<>>, unpushed |-> <<>>, captured |-> <<>>, undone |-> FALSE, down |-> FALSE, events |-> 0, idle |-> FALSE]
               /\ last = Call("DrawingGUI", None, 0, 0, None)
               /\ file = NoFile

\* the mouse moves with the button down: DrawingGUI._on_drag(event)
Gui_on_drag == \E pos \in EventPositions(gui.canvas_size) :
                   Become([DrawingGUI_on_drag(Now, pos).st EXCEPT !.gui.down = (pos # None)], "_on_drag", pos)

\* the button is released: DrawingGUI._on_up(event)
Gui_on_up == \E pos \in EventPositions(gui.canvas_size) :
                 \E r \in {DrawingGUI_on_drag(Now, pos)} :
                        Become([(IF r.raised THEN r.st ELSE [r.st EXCEPT !.gui.last_updated_position = None])
                                   EXCEPT !.gui.down = FALSE], "_on_up", pos)

\* what the canvases hold
Snapshot == [canvas |-> Content(heap, canvas), undo_stack |-> Contents(heap, gui.undo_stack), redo_stack |-> Contents(heap, gui.redo_stack)]

\* what is recorded of the state before _undo and _redo: the handler that ran
\* before, and what the canvases held
Before == [op |-> last.op, canvas |-> Content(heap, canvas), undo_stack |-> Contents(heap, gui.undo_stack), redo_stack |-> Contents(heap, gui.redo_stack)]

\* _undo that copies the live canvas for the redo stack after it has replaced it
Gui_undo_CopyAfter == IF gui.undo_stack # <<>>
                      THEN \E d \in {Heap_deepcopy(heap, gui.undo_stack[Len(gui.undo_stack)])} :
                               Become([heap |-> d.heap, canvas |-> gui.undo_stack[Len(gui.undo_stack)],
                                       gui |-> [gui EXCEPT !.redo_stack = Append(@, d.canvas), !.undo_stack = SubSeq(@, 1, Len(@) - 1),
                                                           !.unpushed = Append(@, gui.pushed[Len(gui.pushed)]), !.pushed = SubSeq(@, 1, Len(@) - 1),
                                                           !.captured = SubSeq(@, 1, Len(@) - 1), !.undone = TRUE]],
                                      "_undo", Before)
                      ELSE Become(Now, "_undo", Before)

\* DrawingGUI._undo()
Gui_undo == IF gui.undo_stack # <<>>
            THEN \E d \in {Heap_deepcopy(heap, canvas)} :
                     Become([heap |-> d.heap, canvas |-> gui.undo_stack[Len(gui.undo_stack)],
                             gui |-> [gui EXCEPT !.redo_stack = Append(@, d.canvas), !.undo_stack = SubSeq(@, 1, Len(@) - 1),
                                                 !.unpushed = Append(@, gui.pushed[Len(gui.pushed)]), !.pushed = SubSeq(@, 1, Len(@) - 1),
                                                 !.captured = SubSeq(@, 1, Len(@) - 1), !.undone = TRUE,
                                                 !.controllers = IF UpdateRaises(heap, gui.undo_stack[Len(gui.undo_stack)], gui.canvas_size) THEN @ ELSE Len(gui.undo_stack[Len(gui.undo_stack)].layers)]],
                            "_undo", Before)
            ELSE Become(Now, "_undo", Before)

\* _redo that appends the live canvas itself, not a copy, to the undo stack
Gui_redo_NoCopy == IF gui.redo_stack # <<>>
                   THEN Become([heap |-> heap, canvas |-> gui.redo_stack[Len(gui.redo_stack)],
                                gui |-> [gui EXCEPT !.undo_stack = Append(@, gui.redo_stack[Len(gui.redo_stack)]), !.redo_stack = SubSeq(@, 1, Len(@) - 1),
                                                    !.pushed = Append(@, gui.unpushed[Len(gui.unpushed)]), !.unpushed = SubSeq(@, 1, Len(@) - 1),
                                                    !.captured = Append(@, Content(heap, canvas))]],
                               "_redo", Before)
                   ELSE Become(Now, "_redo", Before)

\* DrawingGUI._redo()
Gui_redo == IF gui.redo_stack # <<>>
            THEN \E d \in {Heap_deepcopy(heap, canvas)} :
                     Become([heap |-> d.heap, canvas |-> gui.redo_stack[Len(gui.redo_stack)],
                             gui |-> [gui EXCEPT !.undo_stack = Append(@, d.canvas), !.redo_stack = SubSeq(@, 1, Len(@) - 1),
                                                 !.pushed = Append(@, gui.unpushed[Len(gui.unpushed)]), !.unpushed = SubSeq(@, 1, Len(@) - 1),
                                                 !.captured = Append(@, Content(heap, canvas)),
                                                 !.controllers = IF UpdateRaises(heap, gui.redo_stack[Len(gui.redo_stack)], gui.canvas_size) THEN @ ELSE Len(gui.redo_stack[Len(gui.redo_stack)].layers)]],
                            "_redo", Before)
            ELSE Become(Now, "_redo", Before)

\* a radio button of the layer controllers: DrawingGUI._change_layer(index)
Gui_change_layer == \E index \in 0 .. (gui.controllers - 1) :
                        Become([Now EXCEPT !.canvas.active_layer_index = index], "_change_layer", None)

\* a checkbox of the layer controllers: DrawingGUI._toggle_visible(index);
\* get_layer(index) raises IndexError when the canvas has no such layer
Gui_toggle_visible == \E index \in 0 .. (gui.controllers - 1) :
                          Become(IF index >= Len(canvas.layers) THEN Now
                                 ELSE [Now EXCEPT !.heap.layers[canvas.layers[index + 1].id].visible = ~@], "_toggle_visible", None)

\* a delete button of the layer controllers: DrawingGUI._delete_layer(k)
Gui_delete_layer == \E k \in 0 .. (gui.controllers - 1) :
                        Become(IF Len(canvas.layers) < 2 \/ k >= Len(canvas.layers) THEN Now
                               ELSE [Now EXCEPT !.canvas = Canvas_remove_layer(canvas, canvas.layers[k + 1].id),
                                                !.gui.controllers = Len(canvas.layers) - 1], "_delete_layer", None)

\* a move-down button of the layer controllers: DrawingGUI._lower_layer(k)
Gui_lower_layer == \E k \in 0 .. (gui.controllers - 1) :
                       Become(IF k >= Len(canvas.layers) - 1 THEN Now
                              ELSE [Now EXCEPT !.canvas = Canvas_move_layer(canvas, canvas.layers[k + 1].id, -1),
                                               !.gui.controllers = Len(canvas.layers)], "_lower_layer", None)

\* a move-up button of the layer controllers: DrawingGUI._raise_layer(k)
Gui_raise_layer == \E k \in 0 .. (gui.controllers - 1) :
                       Become(IF k <= 0 \/ k >= Len(canvas.layers) THEN Now
                              ELSE [Now EXCEPT !.canvas = Canvas_move_layer(canvas, canvas.layers[k + 1].id, 1),
                                               !.gui.controllers = Len(canvas.layers)], "_raise_layer", None)

\* DrawingGUI._refine(); reset_layer_controllers is reached when neither update raises
Gui_refine == IF gui.canvas_size >= 64 THEN Become(Now, "_refine", None)
              ELSE /\ 2 * gui.canvas_size <= MaxGuiSize
                   /\ 4 * PixelCount(heap, canvas) <= MaxGuiPixels
                   /\ \E st \in {DrawingGUI_push_undo(Now)} : \E u \in {Heap_Canvas_upscale(st.heap, st.canvas)} :
                          Become([heap |-> u.heap, canvas |-> u.canvas,
                                  gui |-> [st.gui EXCEPT !.canvas_size = @ * 2,
                                                         !.controllers = IF UpdateRaises(u.heap, u.canvas, 2 * gui.canvas_size) THEN @ ELSE Len(u.canvas.layers)]],
                                 "_refine", None)

\* DrawingGUI._coarsen()
Gui_coarsen == IF gui.canvas_size <= 1 THEN Become(Now, "_coarsen", None)
               ELSE \E st \in {DrawingGUI_push_undo(Now)} : \E u \in {Heap_Canvas_downscale(st.heap, st.canvas)} :
                           Become([heap |-> u.heap, canvas |-> u.canvas,
                                   gui |-> [st.gui EXCEPT !.canvas_size = @ \div 2,
                                                          !.controllers = IF UpdateRaises(u.heap, u.canvas, gui.canvas_size \div 2) THEN @ ELSE Len(u.canvas.layers)]],
                                  "_coarsen", None)

\* DrawingGUI.add_layer()
Gui_add_layer == /\ Len(canvas.layers) < MaxGuiLayers
                 /\ \E h \in {Heap_Layer_init(heap, <<gui.canvas_size, gui.canvas_size>>, None, GuiLayerNames[gui.total_layers + 1])} :
                        Become([heap |-> h, canvas |-> Canvas_add_layer(canvas, Ref(Len(h.layers))),
                                gui |-> [gui EXCEPT !.total_layers = @ + 1, !.controllers = Len(canvas.layers) + 1]],
                               "add_layer", None)

NextGui == \/ Gui_on_drag
           \/ Gui_on_up
           \/ Gui_undo
           \/ Gui_redo
           \/ Gui_change_layer
           \/ Gui_toggle_visible
           \/ Gui_delete_layer
           \/ Gui_lower_layer
           \/ Gui_raise_layer
           \/ Gui_refine
           \/ Gui_coarsen
           \/ Gui_add_layer

SpecGui == InitGui /\ [][NextGui]_vars

\* the canvases of the front end: the live canvas, then the undo stack, then the redo stack
Canvases(c, g) == <<c>> \o g.undo_stack \o g.redo_stack

\* no Layer object and no Pixel object is reached twice from the canvases cs of the heap h
NoSharing(h, cs) == \E lo \in {LayerRefs(cs)} : \E po \in {PixelRefs(h, lo)} :
                        /\ Cardinality({lo[k] : k \in 1 .. Len(lo)}) = Len(lo)
                        /\ Cardinality({po[k] : k \in 1 .. Len(po)}) = Len(po)

\* the entries that are on a stack before and after a step hold the same content
SameEntries(h1, stack1, h2, stack2) == \A k \in 1 .. Min(Len(stack1), Len(stack2)) : Content(h1, stack1[k]) = Content(h2, stack2[k])

\* C28: after every handler the live canvas and the entries of the undo and redo
\* stacks share no Layer object and no Pixel object, and every entry that stays on
\* its stack holds the content it held before the handler
C28_SnapshotsIsolated == [][/\ NoSharing(heap', Canvases(canvas', gui'))
                            /\ SameEntries(heap, gui.undo_stack, heap', gui'.undo_stack)
                            /\ SameEntries(heap, gui.redo_stack, heap', gui'.redo_stack)]_vars

\* a drag has drawn on the live canvas while two different snapshots are on the undo stack
C28_Witness == /\ last.op = "_on_drag"
               /\ Len(gui.undo_stack) = 2
               /\ Content(heap, gui.undo_stack[1]) # Content(heap, gui.undo_stack[2])
               /\ Content(heap, canvas) # Content(heap, gui.undo_stack[1])
               /\ Content(heap, canvas) # Content(heap, gui.undo_stack[2])
               /\ Contents(heap, gui.undo_stack) = gui.pushed

\* C29 as stated: _undo with a non-empty undo stack leaves as the live canvas the
\* state that the most recent not yet undone _push_undo captured, takes the top
\* entry off the undo stack and appends the state before the _undo to the redo
\* stack; with an empty undo stack it changes nothing
C29_UndoRestoresPushed == [][last'.op = "_undo" =>
                                 IF gui.undo_stack # <<>>
                                 THEN /\ Content(heap', canvas') = gui.pushed[Len(gui.pushed)]
                                      /\ Contents(heap', gui'.undo_stack) = SubSeq(Contents(heap, gui.undo_stack), 1, Len(gui.undo_stack) - 1)
                                      /\ Contents(heap', gui'.redo_stack) = Append(Contents(heap, gui.redo_stack), Content(heap, canvas))
                                 ELSE Snapshot' = Snapshot]_vars

\* C29, amended: _undo with a non-empty undo stack leaves as the live canvas the
\* state that was captured when the top entry of the undo stack was appended, by
\* the most recent not yet undone _push_undo or _redo; it takes that entry off the
\* undo stack and appends the state before the _undo to the redo stack; with an
\* empty undo stack it changes nothing
C29_UndoRestoresCaptured == [][last'.op = "_undo" =>
                                   IF gui.undo_stack # <<>>
                                   THEN /\ Content(heap', canvas') = gui.captured[Len(gui.captured)]
                                        /\ Contents(heap', gui'.undo_stack) = SubSeq(Contents(heap, gui.undo_stack), 1, Len(gui.undo_stack) - 1)
                                        /\ Contents(heap', gui'.redo_stack) = Append(Contents(heap, gui.redo_stack), Content(heap, canvas))
                                   ELSE Snapshot' = Snapshot]_vars

\* an _undo has restored what a _redo captured, which is not what the _push_undo
\* of the redone stroke or rescale had captured
C29_Witness == /\ last.op = "_undo"
               /\ last.pre.undo_stack # <<>>
               /\ Content(heap, canvas) = last.pre.undo_stack[Len(last.pre.undo_stack)]
               /\ Content(heap, canvas) # gui.unpushed[Len(gui.unpushed)]
               /\ Contents(heap, gui.redo_stack) = Append(last.pre.redo_stack, last.pre.canvas)

\* what last.pre recorded of the canvases
Recorded == [canvas |-> last.pre.canvas, undo_stack |-> last.pre.undo_stack, redo_stack |-> last.pre.redo_stack]

\* C30: a _redo right after an _undo that found the undo stack non-empty leaves the
\* live canvas and both stacks with the contents they had before the _undo, and
\* an _undo right after a _redo that found the redo stack non-empty leaves them
\* with the contents they had before the _redo
C30_UndoRedoInverse == [][/\ (last.op = "_undo" /\ last.pre.undo_stack # <<>> /\ last'.op = "_redo") => Snapshot' = Recorded
                          /\ (last.op = "_redo" /\ last.pre.redo_stack # <<>> /\ last'.op = "_undo") => Snapshot' = Recorded]_vars

\* a _redo has followed an _undo that had replaced the live canvas by a different
\* one, and has left two entries on the undo stack
C30_Witness == /\ last.op = "_redo"
               /\ last.pre.op = "_undo"
               /\ last.pre.redo_stack # <<>>
               /\ last.pre.canvas # Content(heap, canvas)
               /\ Len(gui.undo_stack) = 2

\* a step in which _push_undo has run: a handler other than _undo and _redo has
\* left one more entry on the undo stack
Records == last'.op \notin {"_undo", "_redo"} /\ Len(gui'.undo_stack) = Len(gui.undo_stack) + 1

\* C31: a handler in which _push_undo has run (an _on_drag or _on_up that starts a
\* stroke, a _refine that upscales, a _coarsen that downscales) leaves the redo
\* stack empty, and a _redo changes the canvases only when an _undo has happened
\* and no snapshot has been recorded since
C31_RecordingClearsRedo == [][/\ Records => gui'.redo_stack = <<>>
                              /\ (last'.op = "_redo" /\ Snapshot' # Snapshot) => gui.undone]_vars

\* _refine, _undo, _coarsen: the _coarsen has recorded a snapshot while an entry
\* was on the redo stack, and has left the redo stack empty
C31_Witness == /\ last.op = "_coarsen"
               /\ gui.events = 3
               /\ canvas.size = <<0, 0>>
               /\ Len(gui.undo_stack) = 1
               /\ gui.redo_stack = <<>>
               /\ ~gui.undone

\* C33: after every handler the cached canvas_size of the front end is the width
\* of the live canvas, so that the coordinates below canvas_size that the front
\* end passes to get_hex_rgb and get_pixel are inside the canvas
C33_CachedSizeIsWidth == /\ gui.canvas_size = canvas.size[1]
                         /\ ~UpdateRaises(heap, canvas, gui.canvas_size)

\* C34: the layer that DrawingGUI.add_layer has appended to the live canvas has
\* the size of the live canvas
C34_AddedLayerFits == last.op = "add_layer" => heap.layers[canvas.layers[Len(canvas.layers)].id].size = canvas.size

\* C35: the first event (drag or release) of a stroke inside the viewport pushes
\* exactly one snapshot on the undo stack, holding the canvas as it was before the
\* event changed any pixel; every later event of the stroke pushes none.
\* gui.down tells that a drag of the stroke has happened and the button is not yet released
C35_StrokePushesOnce == [][(last'.op \in {"_on_drag", "_on_up"} /\ last'.pre # None) =>
                               Contents(heap', gui'.undo_stack)
                                   = IF gui.down THEN Contents(heap, gui.undo_stack)
                                     ELSE Append(Contents(heap, gui.undo_stack), Content(heap, canvas))]_vars

\* C36: the live canvas of a session always has at least one layer and an active
\* index that names one of its layers
C36_LayersStayValid == /\ Len(canvas.layers) >= 1
                       /\ canvas.active_layer_index \in 0 .. (Len(canvas.layers) - 1)

----------------------------------------------------------------------------
(* The sizes of a session of the front end on the default blank canvas:    *)
(* blank_canvas(16, 16, 4), four visible layers of the canvas's size.  The *)
(* handlers are those of the session (strokes, _refine, _coarsen, _undo,   *)
(* _redo); of each Canvas object only the size is kept, since the colours  *)
(* of the pixels decide neither a size nor an IndexError while every layer *)
(* is visible and has the size of its canvas.                              *)

\* DEFAULT_BLANK_CANVAS_SIZE
DEFAULT_BLANK_CANVAS_SIZE == 16

\* largest number of canvases on the undo stack
MaxSizeHistory == 3

\* largest width of the live canvas
MaxWidth == 128

\* Layer.get_pixel(loc) raises IndexError on a layer of the size sz
OutOfGrid(sz, loc) == loc[1] >= sz[1] \/ loc[2] >= sz[2]

\* _on_drag(event) on sizes: the front end's attributes after it, and whether it
\* ended with an IndexError (of get_pixel in the loop, or of get_hex_rgb in the
\* loop and in _update_view_canvas)
Size_on_drag(g, c, pos) ==
    IF pos = None THEN [gui |-> [g EXCEPT !.last_updated_position = None], raised |-> FALSE]
    ELSE [gui |-> [g EXCEPT !.last_updated_position = pos,
                            !.undo_stack = IF g.last_updated_position = None THEN Append(@, c) ELSE @,
                            !.redo_stack = IF g.last_updated_position = None THEN <<>> ELSE @],
          raised |-> \/ \E positions \in {IF g.last_updated_position # None /\ g.last_updated_position # pos
                                          THEN interpolate(g.last_updated_position, pos) ELSE <<pos>>} :
                            \E k \in 1 .. Len(positions) : OutOfGrid(c.size, positions[k])
                     \/ g.canvas_size > c.size[1]
                     \/ g.canvas_size > c.size[2]]

\* DrawingGUI() with no file: blank_canvas(16, 16, 4), empty stacks
InitSize == /\ canvas = [size |-> <<DEFAULT_BLANK_CANVAS_SIZE, DEFAULT_BLANK_CANVAS_SIZE>>]
            /\ gui = [undo_stack |-> <<>>, redo_stack |-> <<>>, canvas_size |-> DEFAULT_BLANK_CANVAS_SIZE, last_updated_position |-> None]
            /\ heap = NoHeap
            /\ last = Call("DrawingGUI", canvas, 0, 0, None)
            /\ file = NoFile

\* the mouse moves with the button down: _on_drag(event)
Size_drag == \E pos \in EventPositions(gui.canvas_size) :
                 /\ gui.last_updated_position # None \/ pos = None \/ Len(gui.undo_stack) < MaxSizeHistory
                 /\ gui' = Size_on_drag(gui, canvas, pos).gui
                 /\ last' = Call("_on_drag", canvas, 0, 0, None)
                 /\ UNCHANGED <<canvas, heap, file>>

\* the button is released: _on_up(event)
Size_up == \E pos \in EventPositions(gui.canvas_size) :
               /\ gui.last_updated_position # None \/ pos = None \/ Len(gui.undo_stack) < MaxSizeHistory
               /\ \E r \in {Size_on_drag(gui, canvas, pos)} :
                      gui' = IF r.raised THEN r.gui ELSE [r.gui EXCEPT !.last_updated_position = None]
               /\ last' = Call("_on_up", canvas, 0, 0, None)
               /\ UNCHANGED <<canvas, heap, file>>

\* _undo()
Size_undo == /\ IF gui.undo_stack # <<>>
                THEN /\ gui' = [gui EXCEPT !.redo_stack = Append(@, canvas), !.undo_stack = SubSeq(@, 1, Len(@) - 1)]
                     /\ canvas' = gui.undo_stack[Len(gui.undo_stack)]
                ELSE UNCHANGED <<gui, canvas>>
             /\ last' = Call("_undo", canvas, 0, 0, None)
             /\ UNCHANGED <<heap, file>>

\* _redo()
Size_redo == /\ IF gui.redo_stack # <<>>
                THEN /\ gui' = [gui EXCEPT !.undo_stack = Append(@, canvas), !.redo_stack = SubSeq(@, 1, Len(@) - 1)]
                     /\ canvas' = gui.redo_stack[Len(gui.redo_stack)]
                ELSE UNCHANGED <<gui, canvas>>
             /\ last' = Call("_redo", canvas, 0, 0, None)
             /\ UNCHANGED <<heap, file>>

\* _refine(); last.i is 1 when Canvas.upscale was called
Size_refine == /\ IF gui.canvas_size >= 64
                  THEN UNCHANGED <<gui, canvas>> /\ last' = Call("_refine", canvas, 0, 0, None)
                  ELSE /\ Len(gui.undo_stack) < MaxSizeHistory
                       /\ canvas.size[1] * 2 <= MaxWidth
                       /\ gui' = [gui EXCEPT !.undo_stack = Append(@, canvas), !.redo_stack = <<>>, !.canvas_size = @ * 2]
                       /\ canvas' = [canvas EXCEPT !.size = <<canvas.size[1] * 2, canvas.size[2] * 2>>]
                       /\ last' = Call("_refine", canvas, 0, 1, None)
               /\ UNCHANGED <<heap, file>>

\* _coarsen(); last.i is 1 when Canvas.downscale was called, on the canvas last.pre
Size_coarsen == /\ IF gui.canvas_size <= 1
                   THEN UNCHANGED <<gui, canvas>> /\ last' = Call("_coarsen", canvas, 0, 0, None)
                   ELSE /\ Len(gui.undo_stack) < MaxSizeHistory
                        /\ gui' = [gui EXCEPT !.undo_stack = Append(@, canvas), !.redo_stack = <<>>, !.canvas_size = @ \div 2]
                        /\ canvas' = [canvas EXCEPT !.size = <<canvas.size[1] \div 2, canvas.size[2] \div 2>>]
                        /\ last' = Call("_coarsen", canvas, 0, 1, None)
                /\ UNCHANGED <<heap, file>>

NextSize == \/ Size_drag
            \/ Size_up
            \/ Size_undo
            \/ Size_redo
            \/ Size_refine
            \/ Size_coarsen

SpecSize == InitSize /\ [][NextSize]_vars

\* C32: in a session on the default blank canvas the live canvas is square with a
\* side of 1 to 64 pixels after every handler, and _coarsen calls Canvas.downscale
\* only on a canvas whose width and height are even and greater than 1
C32_SizeWithinLimits == /\ canvas.size[1] = canvas.size[2]
                        /\ canvas.size[1] \in 1 .. 64
                        /\ (last.op = "_coarsen" /\ last.i = 1) =>
                               (last.pre.size[1] % 2 = 0 /\ last.pre.size[2] % 2 = 0 /\ last.pre.size[1] > 1 /\ last.pre.size[2] > 1)

----------------------------------------------------------------------------
(***************************************************************************)
(* drawing_gui.py: interpolate(start, end), one call of it run statement   *)
(* by statement.  gui holds the frame of the call: the arguments, the      *)
(* locals and the position (pc) in the function; last.ret is the returned  *)
(* list once the call has returned.                                        *)
(***************************************************************************)

\* largest absolute value of a coordinate of start and end
MaxCoord == 3

Coords == (0 - MaxCoord) .. MaxCoord

\* the absolute value abs(n)
Abs(n) == IF n < 0 THEN 0 - n ELSE n

\* the call interpolate(start, end) is about to run
InitLine == \E start \in Coords \X Coords, end \in Coords \X Coords :
                /\ gui = [pc |-> "call", start |-> start, end |-> end]
                /\ last = Call("interpolate", <<start, end>>, 0, 0, None)
                /\ canvas = Canvas_init(<<1, 1>>)
                /\ file = NoFile
                /\ heap = NoHeap

\* the statements before the loop: the early return for equal points, and the locals
interpolate_call == /\ gui.pc = "call"
                    /\ LET x1 == gui.start[1]
                           y1 == gui.start[2]
                           x2 == gui.end[1]
                           y2 == gui.end[2]
                       IN  IF x1 = x2 /\ y1 = y2
                           THEN /\ gui' = [gui EXCEPT !.pc = "done"]
                                /\ last' = [last EXCEPT !.ret = <<gui.start, gui.end>>]
                           ELSE /\ gui' = [pc |-> "loop", start |-> gui.start, end |-> gui.end, points |-> <<>>,
                                           x1 |-> x1, y1 |-> y1, x2 |-> x2, y2 |-> y2, dx |-> Abs(x2 - x1), dy |-> Abs(y2 - y1),
                                           sx |-> IF x1 < x2 THEN 1 ELSE -1, sy |-> IF y1 < y2 THEN 1 ELSE -1,
                                           err |-> Abs(x2 - x1) - Abs(y2 - y1)]
                                /\ UNCHANGED last
                    /\ UNCHANGED <<canvas, file, heap>>

\* one pass of the while loop with the second test of e2 turned round (e2 > dx)
interpolate_iterate_Steep == /\ gui.pc = "loop"
                             /\ LET points == Append(gui.points, <<gui.x1, gui.y1>>)
                                    e2 == 2 * gui.err
                                    across == e2 > 0 - gui.dy
                                    along == e2 > gui.dx
                                IN  IF gui.x1 = gui.x2 /\ gui.y1 = gui.y2
                                    THEN /\ gui' = [gui EXCEPT !.pc = "done", !.points = points]
                                         /\ last' = [last EXCEPT !.ret = points]
                                    ELSE /\ gui' = [gui EXCEPT !.points = points,
                                                               !.err = (IF across THEN @ - gui.dy ELSE @) + (IF along THEN gui.dx ELSE 0),
                                                               !.x1 = IF across THEN @ + gui.sx ELSE @,
                                                               !.y1 = IF along THEN @ + gui.sy ELSE @]
                                         /\ UNCHANGED last
                             /\ UNCHANGED <<canvas, file, heap>>

\* one pass of the while loop: append the point, return at the end point, else step
interpolate_iterate == /\ gui.pc = "loop"
                       /\ LET points == Append(gui.points, <<gui.x1, gui.y1>>)
                              e2 == 2 * gui.err
                              across == e2 > 0 - gui.dy
                              along == e2 < gui.dx
                          IN  IF gui.x1 = gui.x2 /\ gui.y1 = gui.y2
                              THEN /\ gui' = [gui EXCEPT !.pc = "done", !.points = points]
                                   /\ last' = [last EXCEPT !.ret = points]
                              ELSE /\ gui' = [gui EXCEPT !.points = points,
                                                         !.err = (IF across THEN @ - gui.dy ELSE @) + (IF along THEN gui.dx ELSE 0),
                                                         !.x1 = IF across THEN @ + gui.sx ELSE @,
                                                         !.y1 = IF along THEN @ + gui.sy ELSE @]
                                   /\ UNCHANGED last
                       /\ UNCHANGED <<canvas, file, heap>>

NextLine == \/ interpolate_call
            \/ interpolate_iterate

\* the interpreter runs the call on: a statement that can run does run
SpecLine == InitLine /\ [][NextLine]_vars /\ WF_vars(NextLine)

\* the point p lies in the bounding rectangle of the points a and b
InBox(p, a, b) == /\ p[1] \in Min(a[1], b[1]) .. Max(a[1], b[1])
                  /\ p[2] \in Min(a[2], b[2]) .. Max(a[2], b[2])

\* the list ps leads from a to b in steps to one of the 8 neighbours, inside the rectangle
Connects(ps, a, b) == /\ Len(ps) >= 1
                      /\ ps[1] = a
                      /\ ps[Len(ps)] = b
                      /\ \A k \in 1 .. (Len(ps) - 1) : /\ Abs(ps[k + 1][1] - ps[k][1]) <= 1
                                                       /\ Abs(ps[k + 1][2] - ps[k][2]) <= 1
                                                       /\ ps[k + 1] # ps[k]
                      /\ \A k \in 1 .. Len(ps) : InBox(ps[k], a, b)

\* C37: for distinct start and end the call returns, and the list it returns begins
\* with start, ends with end, moves by at most 1 in each coordinate between two
\* consecutive points, which are distinct, and stays in the bounding rectangle of
\* start and end; the points appended so far never leave that rectangle
C37_LineConnects == /\ [](gui.pc = "loop" => \A k \in 1 .. Len(gui.points) : InBox(gui.points[k], gui.start, gui.end))
                    /\ []((gui.pc = "done" /\ gui.start # gui.end) =>
                              (Connects(last.ret, gui.start, gui.end) /\ last.ret = interpolate(gui.start, gui.end)))
                    /\ <>(gui.pc = "done")

\* the call interpolate((0, 0), (3, -1)) has returned four points, one of them off the row of start
C37_Witness == /\ gui.pc = "done"
               /\ gui.start = <<0, 0>>
               /\ gui.end = <<3, -1>>
               /\ Len(last.ret) = 4
               /\ \E k \in 2 .. 3 : last.ret[k][2] = -1

----------------------------------------------------------------------------
(***************************************************************************)
(* canvas.py: a Canvas that gains and loses layers, with remove_layer also *)
(* called on a canvas of one layer, which its documented precondition      *)
(* excludes.                                                               *)
(***************************************************************************)

\* remove_layer(layer) on a canvas that has exactly one layer
remove_only_layer == /\ Len(canvas.layers) = 1
                     /\ \E ident \in Ids(canvas.layers) :
                            /\ canvas' = Canvas_remove_layer(canvas, ident)
                            /\ last' = Call("remove_layer", canvas, ident, 0, None)
                     /\ UNCHANGED <<file, heap, gui>>

NextRemove == \/ add_layer
              \/ set_active_layer_index
              \/ remove_layer
              \/ remove_only_layer

SpecRemove == Init /\ [][NextRemove]_vars

\* C38: remove_layer on a canvas of exactly one layer leaves the canvas Canvas(size)
\* is at its construction, no layers and active_layer_index -1, and the active index
\* of every canvas of these sessions is -1 exactly when there is no layer and a valid
\* index otherwise
C38_RemoveOnlyLayer == /\ (last.op = "remove_layer" /\ Len(last.pre.layers) = 1) => canvas = Canvas_init(last.pre.size)
                       /\ canvas.layers = <<>> => canvas.active_layer_index = -1
                       /\ canvas.layers # <<>> => canvas.active_layer_index \in 0 .. (Len(canvas.layers) - 1)

\* the only layer of a canvas, its active layer, has been removed
C38_Witness == /\ last.op = "remove_layer"
               /\ Len(last.pre.layers) = 1
               /\ last.pre.active_layer_index = 0
               /\ canvas.layers = <<>>
               /\ canvas.active_layer_index = -1

====
